---- MODULE Spec2Model ----
(***************************************************************************)
(* budgy-document-processor: the categorization engine (categorizer.py,    *)
(* category_taxonomy.py), the service pipeline of main.py                  *)
(* (extract_transactions_from_pdf, deduplicate_transactions), the          *)
(* extractor module pdf_extractor.py (extract_transactions and helpers)    *)
(* and the bucket initialization of supabase_utils.py.                     *)
(*                                                                         *)
(* Text is modelled as a sequence of characters, each character a          *)
(* one-element token: an ASCII character stands for itself, a non-ASCII    *)
(* character is written by name ("s-cedilla", "dotless-i", "I-dot", ...).  *)
(* Category names are atomic strings.  Python's None is None for a name    *)
(* and a transaction type, NoneStr for a text, and an absent key for a     *)
(* field of a rule dictionary (dict.get returns None for both).            *)
(*                                                                         *)
(* Each entry point is checked under its own specification; the variables  *)
(* of the other entry points stay idle in it.                              *)
(***************************************************************************)
EXTENDS Integers, Sequences, FiniteSets, TLC

\* categorizer.categorize: arguments, return value, position
VARIABLES description, tx_type, user_rules, result, pc

\* main.deduplicate_transactions: argument, return value, position
VARIABLES transactions, unique_transactions, dpc

\* main.extract_transactions_from_pdf: argument, locals, return value, position
VARIABLES options, text_transactions, pattern_transactions, ocr_transactions,
          all_transactions, is_scanned, ocr_invoked, fault,
          extraction_result, spc

\* pdf_extractor.detect_transaction_type: arguments, return value, position
VARIABLES type_description, amount_value, transaction_type, tpc

\* pdf_extractor.extract_transactions: arguments, locals, return value, position
VARIABLES pdf, metadata, page_idx, results, ocr_ran, returned, mfault, mpc

\* pdf_extractor.parse_date and clean_amount_to_float, the date
\* standardization of main.py: argument, return value, position
VARIABLES date_arg, amount_arg, helper_value, hpc

\* supabase_utils.initialize_documents_bucket: arguments, environment,
\* locals, the requests posted and the delays slept, return value, position
VARIABLES max_attempts, base_delay, credentials, attempt, responses, delays,
          initialized, bpc

catVars == <<description, tx_type, user_rules, result, pc>>

dedupVars == <<transactions, unique_transactions, dpc>>

serviceVars ==
    <<options, text_transactions, pattern_transactions, ocr_transactions,
      all_transactions, is_scanned, ocr_invoked, fault,
      extraction_result, spc>>

typeVars == <<type_description, amount_value, transaction_type, tpc>>

moduleVars == <<pdf, metadata, page_idx, results, ocr_ran, returned, mfault, mpc>>

helperVars == <<date_arg, amount_arg, helper_value, hpc>>

bucketVars ==
    <<max_attempts, base_delay, credentials, attempt, responses, delays,
      initialized, bpc>>

vars ==
    <<catVars, dedupVars, serviceVars, typeVars, moduleVars, helperVars,
      bucketVars>>

None == "None"
NoneStr == <<"None">>
NoHit == <<>>

\* an entry point that is not the one being checked
CatIdle ==
    /\ description = <<>>
    /\ tx_type = None
    /\ user_rules = <<>>
    /\ result = NoHit
    /\ pc = "idle"

DedupIdle ==
    /\ transactions = <<>>
    /\ unique_transactions = <<>>
    /\ dpc = "idle"

TypeIdle ==
    /\ type_description = <<>>
    /\ amount_value = 0
    /\ transaction_type = None
    /\ tpc = "idle"

ModuleIdle ==
    /\ pdf = <<>>
    /\ metadata = <<>>
    /\ page_idx = 0
    /\ results = <<>>
    /\ ocr_ran = FALSE
    /\ returned = <<>>
    /\ mfault = "none"
    /\ mpc = "idle"

HelperIdle ==
    /\ date_arg = <<>>
    /\ amount_arg = <<>>
    /\ helper_value = <<>>
    /\ hpc = "idle"

BucketIdle ==
    /\ max_attempts = 0
    /\ base_delay = 0
    /\ credentials = FALSE
    /\ attempt = 0
    /\ responses = <<>>
    /\ delays = <<>>
    /\ initialized = None
    /\ bpc = "idle"

ServiceIdle ==
    /\ options = [enable_ocr |-> FALSE]
    /\ text_transactions = <<>>
    /\ pattern_transactions = <<>>
    /\ ocr_transactions = <<>>
    /\ all_transactions = <<>>
    /\ is_scanned = FALSE
    /\ ocr_invoked = FALSE
    /\ fault = "none"
    /\ extraction_result = <<>>
    /\ spc = "idle"

(***************************************************************************)
(* category_taxonomy.py                                                    *)
(***************************************************************************)
INCOME_SUB ==
    ("Salary & Wages" :> <<"Base Salary", "Bonuses", "Overtime", "Commissions", "Tips">>)
    @@ ("Business & Freelance" :> <<"Client Payments", "Project Income", "Consulting Fees", "Sales Revenue">>)
    @@ ("Investments" :> <<"Dividends", "Interest Income", "Capital Gains", "Bond Income">>)
    @@ ("Rental & Property" :> <<"Residential Rent", "Commercial Rent", "Short-Term Rental (e.g., Airbnb)">>)
    @@ ("Government & Benefits" :> <<"Pension", "Unemployment Benefits", "Child Support", "Social Security">>)
    @@ ("Gifts & Grants" :> <<"Monetary Gifts", "Scholarships", "Grants", "Inheritance">>)
    @@ ("Refunds & Adjustments" :> <<"Tax Refunds", "Purchase Refunds", "Cashback">>)
    @@ ("Other Income" :> <<"Lottery/Prize", "Insurance Payouts", "Cryptocurrency Gains">>)

EXPENSE_SUB ==
    ("Housing & Utilities" :> <<"Rent/Mortgage", "Property Tax", "Water", "Electricity", "Gas", "Internet", "Phone">>)
    @@ ("Food & Groceries" :> <<"Groceries", "Dining Out", "Coffee/Tea", "Snacks">>)
    @@ ("Transportation" :> <<"Fuel", "Public Transport", "Ride-Hailing", "Vehicle Maintenance", "Tolls & Parking">>)
    @@ ("Debts & Liabilities" :> <<"Credit Card Payment", "Loan Payment", "Mortgage Payment", "Overdraft Fees">>)
    @@ ("Insurance" :> <<"Health", "Life", "Vehicle", "Property", "Travel">>)
    @@ ("Healthcare & Wellness" :> <<"Doctor Visits", "Medicines", "Dental Care", "Therapy", "Fitness & Gym">>)
    @@ ("Education & Learning" :> <<"Tuition", "Courses", "Books", "Supplies">>)
    @@ ("Shopping & Personal Care" :> <<"Clothing", "Accessories", "Electronics", "Personal Care", "Cosmetics">>)
    @@ ("Entertainment & Leisure" :> <<"Subscriptions (Netflix, Spotify)", "Movies", "Events", "Gaming">>)
    @@ ("Travel & Holidays" :> <<"Flights", "Accommodation", "Local Transport", "Activities">>)
    @@ ("Gifts & Donations" :> <<"Charitable Donations", "Monetary Gifts", "Non-Cash Gifts">>)
    @@ ("Taxes & Fees" :> <<"Income Tax", "Property Tax", "Service Charges", "Penalties">>)
    @@ ("Business Expenses" :> <<"Office Rent", "Software", "Marketing", "Equipment", "Professional Fees">>)
    @@ ("Savings & Investments" :> <<"Savings Deposit", "Retirement Fund", "Stock Purchase", "Crypto Purchase">>)
    @@ ("Miscellaneous" :> <<"Unplanned Purchases", "Pet Care", "Home Maintenance">>)

MCC_MAP ==
    <<
    [code |-> <<"5", "4", "1", "1">>, main |-> "Food & Groceries", sub |-> "Groceries"],
    [code |-> <<"5", "5", "4", "1">>, main |-> "Transportation", sub |-> "Fuel"],
    [code |-> <<"5", "8", "1", "2">>, main |-> "Food & Groceries", sub |-> "Dining Out"],
    [code |-> <<"5", "8", "1", "4">>, main |-> "Food & Groceries", sub |-> "Dining Out"],
    [code |-> <<"4", "1", "1", "1">>, main |-> "Transportation", sub |-> "Public Transport"],
    [code |-> <<"4", "8", "9", "9">>, main |-> "Housing & Utilities", sub |-> "Internet"],
    [code |-> <<"4", "8", "1", "4">>, main |-> "Housing & Utilities", sub |-> "Phone"],
    [code |-> <<"5", "7", "3", "2">>, main |-> "Shopping & Personal Care", sub |-> "Electronics"]
    >>

KEYWORD_MAP ==
    <<
    [kw |-> <<"m", "i", "g", "r", "o", "s">>, main |-> "Food & Groceries", sub |-> "Groceries"],
    [kw |-> <<"c", "a", "r", "r", "e", "f", "o", "u", "r">>, main |-> "Food & Groceries", sub |-> "Groceries"],
    [kw |-> <<"a", "1", "0", "1">>, main |-> "Food & Groceries", sub |-> "Groceries"],
    [kw |-> <<"b", "i", "m">>, main |-> "Food & Groceries", sub |-> "Groceries"],
    [kw |-> <<"s-cedilla", "o", "k">>, main |-> "Food & Groceries", sub |-> "Groceries"],
    [kw |-> <<"s", "o", "k">>, main |-> "Food & Groceries", sub |-> "Groceries"],
    [kw |-> <<"g", "e", "t", "i", "r">>, main |-> "Food & Groceries", sub |-> "Groceries"],
    [kw |-> <<"b", "a", "n", "a", "b", "i">>, main |-> "Food & Groceries", sub |-> "Groceries"],
    [kw |-> <<"y", "e", "m", "e", "k", "s", "e", "p", "e", "t", "i">>, main |-> "Food & Groceries", sub |-> "Dining Out"],
    [kw |-> <<"t", "r", "e", "n", "d", "y", "o", "l", " ", "y", "e", "m", "e", "k">>, main |-> "Food & Groceries", sub |-> "Dining Out"],
    [kw |-> <<"k", "a", "h", "v", "e">>, main |-> "Food & Groceries", sub |-> "Coffee/Tea"],
    [kw |-> <<"s", "t", "a", "r", "b", "u", "c", "k", "s">>, main |-> "Food & Groceries", sub |-> "Coffee/Tea"],
    [kw |-> <<"c", "a", "f", "e">>, main |-> "Food & Groceries", sub |-> "Dining Out"],
    [kw |-> <<"r", "e", "s", "t", "a", "u", "r", "a", "n", "t">>, main |-> "Food & Groceries", sub |-> "Dining Out"],
    [kw |-> <<"u", "b", "e", "r">>, main |-> "Transportation", sub |-> "Ride-Hailing"],
    [kw |-> <<"b", "i", "t", "a", "k", "s", "i">>, main |-> "Transportation", sub |-> "Ride-Hailing"],
    [kw |-> <<"i", "e", "t", "t">>, main |-> "Transportation", sub |-> "Public Transport"],
    [kw |-> <<"m", "e", "t", "r", "o", " ", "i", "s", "t">>, main |-> "Transportation", sub |-> "Public Transport"],
    [kw |-> <<"h", "a", "v", "a", "b", "u", "s">>, main |-> "Transportation", sub |-> "Public Transport"],
    [kw |-> <<"t", "a", "k", "s", "i">>, main |-> "Transportation", sub |-> "Ride-Hailing"],
    [kw |-> <<"o", "p", "e", "t">>, main |-> "Transportation", sub |-> "Fuel"],
    [kw |-> <<"s", "h", "e", "l", "l">>, main |-> "Transportation", sub |-> "Fuel"],
    [kw |-> <<"b", "p">>, main |-> "Transportation", sub |-> "Fuel"],
    [kw |-> <<"t", "o", "t", "a", "l">>, main |-> "Transportation", sub |-> "Fuel"],
    [kw |-> <<"a", "y", "t", "e", "m", "i", "z">>, main |-> "Transportation", sub |-> "Fuel"],
    [kw |-> <<"p", "e", "t", "r", "o", "l", " ", "o", "f", "i", "s", "i">>, main |-> "Transportation", sub |-> "Fuel"],
    [kw |-> <<"h", "e", "p", "s", "i", "b", "u", "r", "a", "d", "a">>, main |-> "Shopping & Personal Care", sub |-> "Electronics"],
    [kw |-> <<"t", "r", "e", "n", "d", "y", "o", "l">>, main |-> "Shopping & Personal Care", sub |-> "Clothing"],
    [kw |-> <<"n", "1", "1">>, main |-> "Shopping & Personal Care", sub |-> "Electronics"],
    [kw |-> <<"a", "m", "a", "z", "o", "n">>, main |-> "Shopping & Personal Care", sub |-> "Electronics"],
    [kw |-> <<"b", "o", "y", "n", "e", "r">>, main |-> "Shopping & Personal Care", sub |-> "Clothing"],
    [kw |-> <<"d", "e", "c", "a", "t", "h", "l", "o", "n">>, main |-> "Shopping & Personal Care", sub |-> "Accessories"],
    [kw |-> <<"f", "l", "o">>, main |-> "Shopping & Personal Care", sub |-> "Clothing"],
    [kw |-> <<"k", "o", "t", "o", "n">>, main |-> "Shopping & Personal Care", sub |-> "Clothing"],
    [kw |-> <<"z", "a", "r", "a">>, main |-> "Shopping & Personal Care", sub |-> "Clothing"],
    [kw |-> <<"h", "m", " ">>, main |-> "Shopping & Personal Care", sub |-> "Clothing"],
    [kw |-> <<"e", "l", "e", "k", "t", "r", "i", "k">>, main |-> "Housing & Utilities", sub |-> "Electricity"],
    [kw |-> <<"d", "o", "g-breve", "a", "l", "g", "a", "z">>, main |-> "Housing & Utilities", sub |-> "Gas"],
    [kw |-> <<"d", "o", "g", "a", "l", "g", "a", "z">>, main |-> "Housing & Utilities", sub |-> "Gas"],
    [kw |-> <<"s", "u", " ", "f", "a", "t", "u", "r", "a", "s", "dotless-i">>, main |-> "Housing & Utilities", sub |-> "Water"],
    [kw |-> <<"s", "u", " ", "f", "a", "t", "u", "r", "a">>, main |-> "Housing & Utilities", sub |-> "Water"],
    [kw |-> <<"i", "n", "t", "e", "r", "n", "e", "t">>, main |-> "Housing & Utilities", sub |-> "Internet"],
    [kw |-> <<"t", "u", "r", "k", "c", "e", "l", "l">>, main |-> "Housing & Utilities", sub |-> "Phone"],
    [kw |-> <<"v", "o", "d", "a", "f", "o", "n", "e">>, main |-> "Housing & Utilities", sub |-> "Phone"],
    [kw |-> <<"t", "u", "r", "k", "t", "e", "l", "e", "k", "o", "m">>, main |-> "Housing & Utilities", sub |-> "Phone"],
    [kw |-> <<"t", "t", "n", "e", "t">>, main |-> "Housing & Utilities", sub |-> "Internet"],
    [kw |-> <<"k", "i", "r", "a">>, main |-> "Housing & Utilities", sub |-> "Rent/Mortgage"],
    [kw |-> <<"e", "v", " ", "k", "i", "r", "a", "s", "dotless-i">>, main |-> "Housing & Utilities", sub |-> "Rent/Mortgage"],
    [kw |-> <<"a", "i", "d", "a", "t">>, main |-> "Housing & Utilities", sub |-> "Home Maintenance"],
    [kw |-> <<"e", "c", "z", "a", "n", "e">>, main |-> "Healthcare & Wellness", sub |-> "Medicines"],
    [kw |-> <<"h", "a", "s", "t", "a", "n", "e">>, main |-> "Healthcare & Wellness", sub |-> "Doctor Visits"],
    [kw |-> <<"h", "o", "s", "p", "i", "t", "a", "l">>, main |-> "Healthcare & Wellness", sub |-> "Doctor Visits"],
    [kw |-> <<"s", "i", "g", "o", "r", "t", "a">>, main |-> "Insurance", sub |-> "Vehicle"],
    [kw |-> <<"o", "k", "u", "l">>, main |-> "Education & Learning", sub |-> "Tuition"],
    [kw |-> <<"u-umlaut", "n", "i", "v", "e", "r", "s", "i", "t", "e">>, main |-> "Education & Learning", sub |-> "Tuition"],
    [kw |-> <<"k", "u", "r", "s">>, main |-> "Education & Learning", sub |-> "Courses"],
    [kw |-> <<"s", "i", "n", "e", "m", "a">>, main |-> "Entertainment & Leisure", sub |-> "Movies"],
    [kw |-> <<"c", "i", "n", "e", "m", "a">>, main |-> "Entertainment & Leisure", sub |-> "Movies"],
    [kw |-> <<"s", "p", "o", "t", "i", "f", "y">>, main |-> "Entertainment & Leisure", sub |-> "Subscriptions (Netflix, Spotify)"],
    [kw |-> <<"n", "e", "t", "f", "l", "i", "x">>, main |-> "Entertainment & Leisure", sub |-> "Subscriptions (Netflix, Spotify)"],
    [kw |-> <<"y", "o", "u", "t", "u", "b", "e">>, main |-> "Entertainment & Leisure", sub |-> "Subscriptions (Netflix, Spotify)"],
    [kw |-> <<"b", "l", "u", "t", "v">>, main |-> "Entertainment & Leisure", sub |-> "Subscriptions (Netflix, Spotify)"],
    [kw |-> <<"e", "x", "x", "e", "n">>, main |-> "Entertainment & Leisure", sub |-> "Subscriptions (Netflix, Spotify)"],
    [kw |-> <<"p", "e", "g", "a", "s", "u", "s">>, main |-> "Travel & Holidays", sub |-> "Flights"],
    [kw |-> <<"t", "h", "y">>, main |-> "Travel & Holidays", sub |-> "Flights"],
    [kw |-> <<"t", "u", "r", "k", "i", "s", "h", " ", "a", "i", "r", "l", "i", "n", "e", "s">>, main |-> "Travel & Holidays", sub |-> "Flights"],
    [kw |-> <<"b", "o", "o", "k", "i", "n", "g">>, main |-> "Travel & Holidays", sub |-> "Accommodation"],
    [kw |-> <<"a", "i", "r", "b", "n", "b">>, main |-> "Travel & Holidays", sub |-> "Accommodation"],
    [kw |-> <<"e", "f", "t">>, main |-> "Debts & Liabilities", sub |-> "Credit Card Payment"],
    [kw |-> <<"h", "a", "v", "a", "l", "e">>, main |-> "Debts & Liabilities", sub |-> "Loan Payment"],
    [kw |-> <<"f", "a", "s", "t", " ">>, main |-> "Debts & Liabilities", sub |-> "Credit Card Payment"],
    [kw |-> <<"i", "b", "a", "n">>, main |-> "Debts & Liabilities", sub |-> "Loan Payment"],
    [kw |-> <<"p", "a", "r", "a", " ", "t", "r", "a", "n", "s", "f", "e", "r">>, main |-> "Debts & Liabilities", sub |-> "Loan Payment"],
    [kw |-> <<"v", "i", "r", "m", "a", "n">>, main |-> "Debts & Liabilities", sub |-> "Loan Payment"],
    [kw |-> <<"n", "a", "k", "i", "t", " ", "c-cedilla", "e", "k", "i", "m">>, main |-> "Transportation", sub |-> "Tolls & Parking"],
    [kw |-> <<"a", "t", "m">>, main |-> "Transportation", sub |-> "Tolls & Parking"],
    [kw |-> <<"m", "a", "a", "s">>, main |-> "Salary & Wages", sub |-> "Base Salary"],
    [kw |-> <<"m", "a", "a", "s-cedilla">>, main |-> "Salary & Wages", sub |-> "Base Salary"],
    [kw |-> <<"s", "a", "l", "a", "r", "y">>, main |-> "Salary & Wages", sub |-> "Base Salary"],
    [kw |-> <<"u", "c", "r", "e", "t">>, main |-> "Salary & Wages", sub |-> "Base Salary"],
    [kw |-> <<"u-umlaut", "c", "r", "e", "t">>, main |-> "Salary & Wages", sub |-> "Base Salary"],
    [kw |-> <<"k", "o", "m", "i", "s", "y", "o", "n">>, main |-> "Taxes & Fees", sub |-> "Service Charges"],
    [kw |-> <<"h", "e", "s", "a", "p", " ", "i", "s-cedilla", "l", "e", "t", "i", "m">>, main |-> "Taxes & Fees", sub |-> "Service Charges"],
    [kw |-> <<"i", "s", "l", "e", "t", "i", "m", " ", "u-umlaut", "c", "r", "e", "t", "i">>, main |-> "Taxes & Fees", sub |-> "Service Charges"],
    [kw |-> <<"b", "s", "m", "v">>, main |-> "Taxes & Fees", sub |-> "Income Tax"],
    [kw |-> <<"k", "k", "d", "f">>, main |-> "Taxes & Fees", sub |-> "Income Tax"],
    [kw |-> <<"v", "e", "r", "g", "i">>, main |-> "Taxes & Fees", sub |-> "Income Tax"]
    >>

(***************************************************************************)
(* Text primitives of Python used by categorizer.py                        *)
(***************************************************************************)
UpperToLower ==
    ("A" :> <<"a">>) @@ ("B" :> <<"b">>) @@ ("C" :> <<"c">>) @@ ("D" :> <<"d">>)
    @@ ("E" :> <<"e">>) @@ ("F" :> <<"f">>) @@ ("G" :> <<"g">>) @@ ("H" :> <<"h">>)
    @@ ("I" :> <<"i">>) @@ ("J" :> <<"j">>) @@ ("K" :> <<"k">>) @@ ("L" :> <<"l">>)
    @@ ("M" :> <<"m">>) @@ ("N" :> <<"n">>) @@ ("O" :> <<"o">>) @@ ("P" :> <<"p">>)
    @@ ("Q" :> <<"q">>) @@ ("R" :> <<"r">>) @@ ("S" :> <<"s">>) @@ ("T" :> <<"t">>)
    @@ ("U" :> <<"u">>) @@ ("V" :> <<"v">>) @@ ("W" :> <<"w">>) @@ ("X" :> <<"x">>)
    @@ ("Y" :> <<"y">>) @@ ("Z" :> <<"z">>)
    @@ ("S-cedilla" :> <<"s-cedilla">>) @@ ("C-cedilla" :> <<"c-cedilla">>)
    @@ ("U-umlaut" :> <<"u-umlaut">>) @@ ("O-umlaut" :> <<"o-umlaut">>)
    @@ ("G-breve" :> <<"g-breve">>)
    @@ ("I-dot" :> <<"i", "combining-dot">>)

\* str.lower(): character by character; U+0130 lowers to two code points
RECURSIVE Lower(_)
Lower(s) ==
    IF s = <<>> THEN <<>>
    ELSE (IF Head(s) \in DOMAIN UpperToLower THEN UpperToLower[Head(s)] ELSE <<Head(s)>>)
         \o Lower(Tail(s))

IsSpace(c) == c = " "

\* str.strip(): leading and trailing whitespace removed
RECURSIVE LStrip(_)
LStrip(s) == IF s # <<>> /\ IsSpace(Head(s)) THEN LStrip(Tail(s)) ELSE s

RECURSIVE RStrip(_)
RStrip(s) ==
    IF s # <<>> /\ IsSpace(s[Len(s)]) THEN RStrip(SubSeq(s, 1, Len(s) - 1)) ELSE s

Strip(s) == RStrip(LStrip(s))

\* the Python operator `p in d` on strings
Contains(p, d) ==
    \/ p = <<>>
    \/ \E i \in 1..(Len(d) - Len(p) + 1) :
          d[i] = p[1] /\ \A j \in 2..Len(p) : d[i + j - 1] = p[j]

Digits == {"0", "1", "2", "3", "4", "5", "6", "7", "8", "9"}

\* the characters of the model's alphabet that the regex class \w rejects
NonWordChars ==
    {" ", "-", "+", "/", ".", ",", "*", "(", ")", "combining-dot", "minus-sign"}

IsWordChar(c) == c \notin NonWordChars

\* the regex assertion \b between d[i] and d[i+1] (i = 0: start, i = Len(d): end)
WordBoundary(d, i) ==
    LET before == i >= 1 /\ IsWordChar(d[i])
        after  == i < Len(d) /\ IsWordChar(d[i + 1])
    IN  before # after

AllDigits(d, from, to) ==
    /\ to <= Len(d)
    /\ \A j \in from..to : d[j] \in Digits

(***************************************************************************)
(* categorizer.py                                                          *)
(***************************************************************************)
\* _norm: (s or "").strip().lower()
Norm(s) == IF s = NoneStr THEN <<>> ELSE Lower(Strip(s))

\* dict.get(key): the value, or None when the key is absent
GetName(r, key) == IF key \in DOMAIN r THEN r[key] ELSE None

GetPattern(r) == IF "pattern" \in DOMAIN r THEN r["pattern"] ELSE NoneStr

\* r.get("weight") or 1.0: a missing weight and a weight of 0 both give 1.0
DefaultWeight == 1

GetWeight(r) ==
    IF "weight" \in DOMAIN r /\ r["weight"] # 0 THEN r["weight"] ELSE DefaultWeight

\* variant of UserKeyLess: the key taken as (weight, length)
UserKeyLessWeightFirst(a, b) == a[4] < b[4] \/ (a[4] = b[4] /\ a[1] < b[1])

\* the sort key (t[0], t[3]) of a user-rule hit, compared as Python compares tuples
UserKeyLess(a, b) == a[1] < b[1] \/ (a[1] = b[1] /\ a[4] < b[4])

\* list.sort(key=..., reverse=True): stable, equal keys keep their list order
RECURSIVE InsertHit(_, _)
InsertHit(h, sorted) ==
    IF sorted = <<>> THEN <<h>>
    ELSE IF UserKeyLess(Head(sorted), h) THEN <<h>> \o sorted
         ELSE <<Head(sorted)>> \o InsertHit(h, Tail(sorted))

RECURSIVE SortUserHits(_)
SortUserHits(hits) ==
    IF hits = <<>> THEN <<>>
    ELSE InsertHit(hits[Len(hits)], SortUserHits(SubSeq(hits, 1, Len(hits) - 1)))

FirstPair(sorted) == <<sorted[1][2], sorted[1][3]>>

RuleMatches(r, desc_lc) ==
    LET p == Norm(GetPattern(r)) IN p # <<>> /\ Contains(p, desc_lc)

RECURSIVE UserHits(_, _)
UserHits(desc_lc, rules) ==
    IF rules = <<>> THEN <<>>
    ELSE LET r == Head(rules)
             p == Norm(GetPattern(r))
         IN  (IF RuleMatches(r, desc_lc)
              THEN << <<Len(p), GetName(r, "category_main"),
                        GetName(r, "category_sub"), GetWeight(r)>> >>
              ELSE <<>>)
             \o UserHits(desc_lc, Tail(rules))

\* `if not user_rules`: None and the empty list are both <<>> here
\* lines 25-29: no hit, or main and sub of the first hit after the sort
BestUserHit(hits) ==
    IF hits = <<>> THEN NoHit ELSE FirstPair(SortUserHits(hits))

_by_user_rules(desc_lc, rules) ==
    IF rules = <<>> THEN NoHit ELSE BestUserHit(UserHits(desc_lc, rules))

\* _MCC_RX = \bMCC\W?(\d{4})\b at start position i: the four digits, or <<>>
MccMatchAt(d, i) ==
    IF ~(/\ i + 2 <= Len(d)
         /\ WordBoundary(d, i - 1)
         /\ SubSeq(d, i, i + 2) = <<"m", "c", "c">>)
    THEN <<>>
    ELSE IF /\ i + 3 <= Len(d)
            /\ ~IsWordChar(d[i + 3])
            /\ AllDigits(d, i + 4, i + 7)
            /\ WordBoundary(d, i + 7)
         THEN SubSeq(d, i + 4, i + 7)
         ELSE IF AllDigits(d, i + 3, i + 6) /\ WordBoundary(d, i + 6)
              THEN SubSeq(d, i + 3, i + 6)
              ELSE <<>>

\* _MCC_RX.search: group 1 of the leftmost match, or <<>>
LeftmostMatch(d, starts) ==
    IF starts = {} THEN <<>>
    ELSE MccMatchAt(d, CHOOSE i \in starts : \A j \in starts : i <= j)

MccSearch(d) == LeftmostMatch(d, {i \in 1..Len(d) : MccMatchAt(d, i) # <<>>})

\* MCC_MAP.get(code)
MccLookup(code) ==
    LET idx == {k \in 1..Len(MCC_MAP) : MCC_MAP[k].code = code}
    IN  IF idx = {} THEN NoHit
        ELSE LET k == CHOOSE k \in idx : TRUE IN <<MCC_MAP[k].main, MCC_MAP[k].sub>>

LookupFound(code) == IF code = <<>> THEN NoHit ELSE MccLookup(code)

_by_mcc(desc_lc) == LookupFound(MccSearch(desc_lc))

\* the keyword-map entries, in map order, whose keyword occurs in the description
KeywordOccurs(desc_lc, e) == Contains(e.kw, desc_lc)

KeywordHits(desc_lc) == SelectSeq(KEYWORD_MAP, LAMBDA e : KeywordOccurs(desc_lc, e))

\* variant of KeywordKeyLess: an unstable order, equal lengths change places
KeywordKeyLessOrEqual(a, b) == Len(a.kw) <= Len(b.kw)

\* hits.sort(key=lambda kv: len(kv[0]), reverse=True): stable
KeywordKeyLess(a, b) == Len(a.kw) < Len(b.kw)

RECURSIVE InsertKeywordHit(_, _)
InsertKeywordHit(h, sorted) ==
    IF sorted = <<>> THEN <<h>>
    ELSE IF KeywordKeyLess(Head(sorted), h) THEN <<h>> \o sorted
         ELSE <<Head(sorted)>> \o InsertKeywordHit(h, Tail(sorted))

RECURSIVE SortKeywordHits(_)
SortKeywordHits(hits) ==
    IF hits = <<>> THEN <<>>
    ELSE InsertKeywordHit(hits[Len(hits)],
                          SortKeywordHits(SubSeq(hits, 1, Len(hits) - 1)))

FirstCategory(sorted) == <<sorted[1].main, sorted[1].sub>>

BestKeywordHit(hits) ==
    IF hits = <<>> THEN NoHit ELSE FirstCategory(SortKeywordHits(hits))

_by_keywords(desc_lc) == BestKeywordHit(KeywordHits(desc_lc))

\* _IBAN_RX = \bTR\d{24}\b, searched in the lower-cased description
IbanSearch(d) ==
    \E i \in 1..Len(d) :
        /\ i + 25 <= Len(d)
        /\ WordBoundary(d, i - 1)
        /\ SubSeq(d, i, i + 1) = <<"t", "r">>
        /\ AllDigits(d, i + 2, i + 25)
        /\ WordBoundary(d, i + 25)

_by_rules(desc_lc, type) ==
    IF \/ IbanSearch(desc_lc)
       \/ Contains(<<"e", "f", "t">>, desc_lc)
       \/ Contains(<<"h", "a", "v", "a", "l", "e">>, desc_lc)
       \/ Contains(<<"f", "a", "s", "t">>, desc_lc)
    THEN <<"Debts & Liabilities", "Loan Payment">>
    ELSE IF \/ type = "income"
            \/ Contains(<<"m", "a", "a", "s">>, desc_lc)
            \/ Contains(<<"m", "a", "a", "s-cedilla">>, desc_lc)
            \/ Contains(<<"s", "a", "l", "a", "r", "y">>, desc_lc)
    THEN <<"Salary & Wages", "Base Salary">>
    ELSE IF \/ Contains(<<"n", "a", "k", "i", "t">>, desc_lc)
            \/ Contains(<<"a", "t", "m">>, desc_lc)
    THEN <<"Miscellaneous", "Unplanned Purchases">>
    ELSE IF \/ Contains(<<"k", "o", "m", "i", "s", "y", "o", "n">>, desc_lc)
            \/ Contains(<<"h", "e", "s", "a", "p", " ", "i", "combining-dot",
                          "s-cedilla", "l", "e", "t", "i", "m">>, desc_lc)
            \/ Contains(<<"h", "e", "s", "a", "p", " ", "i", "s-cedilla",
                          "l", "e", "t", "i", "m">>, desc_lc)
            \/ Contains(<<"f", "e", "e">>, desc_lc)
    THEN <<"Taxes & Fees", "Service Charges">>
    ELSE IF \/ Contains(<<"b", "s", "m", "v">>, desc_lc)
            \/ Contains(<<"k", "k", "d", "f">>, desc_lc)
            \/ Contains(<<"v", "e", "r", "g", "i">>, desc_lc)
            \/ Contains(<<"t", "a", "x">>, desc_lc)
    THEN <<"Taxes & Fees", "Income Tax">>
    ELSE NoHit

\* variant of _coerce_to_side: the expense branch left out
CoerceIncomeOnly(main, type) ==
    IF type = "income" /\ main \in DOMAIN EXPENSE_SUB THEN "Other Income" ELSE main

_coerce_to_side(main, type) ==
    IF type = "income" /\ main \in DOMAIN EXPENSE_SUB THEN "Other Income"
    ELSE IF type = "expense" /\ main \in DOMAIN INCOME_SUB THEN "Miscellaneous"
    ELSE main

_default_sub(main) ==
    IF main \in DOMAIN INCOME_SUB THEN INCOME_SUB[main][1]
    ELSE IF main \in DOMAIN EXPENSE_SUB THEN EXPENSE_SUB[main][1]
    ELSE "Unplanned Purchases"

\* `x or y` on an optional string
OrElse(x, y) == IF x = None \/ x = "" THEN y ELSE x

\* the return statement shared by the four tiers (lines 80, 86, 92, 98)
TierResult(hit, type) ==
    <<_coerce_to_side(hit[1], OrElse(type, "expense")),
      OrElse(hit[2], _default_sub(hit[1]))>>

\* variant of Cascade: the keyword tier consulted before the MCC tier
CascadeKeywordsFirst(h1, h2, h3, h4, type) ==
    IF h1 # NoHit THEN TierResult(h1, type)
    ELSE IF h3 # NoHit THEN TierResult(h3, type)
    ELSE IF h2 # NoHit THEN TierResult(h2, type)
    ELSE IF h4 # NoHit THEN TierResult(h4, type)
    ELSE IF type = "income" THEN <<"Other Income", "Lottery/Prize">>
    ELSE <<"Miscellaneous", "Unplanned Purchases">>

\* lines 76-103: the four `if hit:` blocks and the fallback; a tier is
\* evaluated only when every earlier one returned nothing
Cascade(h1, h2, h3, h4, type) ==
    IF h1 # NoHit THEN TierResult(h1, type)
    ELSE IF h2 # NoHit THEN TierResult(h2, type)
    ELSE IF h3 # NoHit THEN TierResult(h3, type)
    ELSE IF h4 # NoHit THEN TierResult(h4, type)
    ELSE IF type = "income" THEN <<"Other Income", "Lottery/Prize">>
    ELSE <<"Miscellaneous", "Unplanned Purchases">>

CategorizeNormalized(desc_lc, type, rules) ==
    Cascade(_by_user_rules(desc_lc, rules), _by_mcc(desc_lc),
            _by_keywords(desc_lc), _by_rules(desc_lc, type), type)

categorize(desc, type, rules) == CategorizeNormalized(Norm(desc), type, rules)

(***************************************************************************)
(* Inputs of the checked calls                                             *)
(***************************************************************************)
MaxWords == 2
MaxRules == 2

\* phrases a description is made of: one for every tier and every marker
Vocabulary ==
    <<
    <<"S", "T", "A", "R", "B", "U", "C", "K", "S">>,
    <<"a", "i", "d", "a", "t">>,
    <<"a", "t", "m">>,
    <<"n", "a", "k", "i", "t">>,
    <<"m", "c", "c", " ", "5", "4", "1", "1">>,
    <<"S", "t", "a", "r", "b", "u", "c", "k", "s", " ", "M", "C", "C", "-", "5", "8", "1", "4">>,
    <<"m", "c", "c", "9", "9", "9", "9">>,
    <<"m", "a", "a", "s">>,
    <<"e", "f", "t">>,
    <<"t", "r", "e", "n", "d", "y", "o", "l", " ", "y", "e", "m", "e", "k">>,
    <<"x", "y", "z">>,
    <<"f", "e", "e">>,
    <<"t", "a", "x">>,
    <<"t", "r", "3", "3", "0", "0", "0", "6", "1", "0", "0", "5", "1", "9",
      "7", "8", "6", "4", "5", "7", "8", "4", "1", "3", "2", "6">>
    >>

\* user rules as dictionaries; a key a rule omits is absent from its domain
RulePool ==
    {
    [pattern |-> <<"s", "t", "a", "r", "b", "u", "c", "k", "s">>,
     category_main |-> "Food & Groceries", category_sub |-> "Coffee/Tea"],
    [pattern |-> <<"s", "t", "a", "r">>,
     category_main |-> "Salary & Wages", category_sub |-> "Bonuses"],
    [pattern |-> <<"B", "U", "C", "K">>,
     category_main |-> "Transportation", weight |-> 0],
    [pattern |-> <<" ", "a", "t", "m", " ">>,
     category_sub |-> "Pet Care", weight |-> 2],
    [pattern |-> <<"u", "c", "k", "s">>,
     category_main |-> "Transportation", category_sub |-> "Fuel", weight |-> 2],
    [category_main |-> "Insurance", category_sub |-> "Life"]
    }

TxTypes == {"income", "expense", None}

SeqsUpTo(S, n) == UNION {[1..k -> S] : k \in 0..n}

RECURSIVE Join(_)
Join(ws) ==
    IF ws = <<>> THEN <<>>
    ELSE IF Len(ws) = 1 THEN Vocabulary[ws[1]]
    ELSE Vocabulary[ws[1]] \o <<" ">> \o Join(Tail(ws))

\* a description of one phrase is categorized under every rule list of up to
\* MaxRules rules, a longer one under shorter lists
RuleBound(nwords) ==
    IF nwords <= 1 THEN MaxRules
    ELSE IF MaxRules > 2 * (nwords - 1) THEN MaxRules - 2 * (nwords - 1)
    ELSE 0

\* the descriptions of a word sequence: as written, and for a single phrase
\* also with surrounding blanks; no text at all is None or the empty string
DescriptionsOf(ws) ==
    IF ws = <<>> THEN {NoneStr, <<>>}
    ELSE IF Len(ws) = 1 THEN {Join(ws), <<" ">> \o Join(ws) \o <<" ", " ">>}
    ELSE {Join(ws)}

Init ==
    \E ws \in SeqsUpTo(1..Len(Vocabulary), MaxWords) :
        /\ description \in DescriptionsOf(ws)
        /\ tx_type \in TxTypes
        /\ user_rules \in SeqsUpTo(RulePool, RuleBound(Len(ws)))
        /\ result = NoHit
        /\ pc = "ready"
        /\ DedupIdle
        /\ ServiceIdle
        /\ TypeIdle
        /\ ModuleIdle
        /\ HelperIdle
        /\ BucketIdle

\* one call categorize(description, tx_type, user_rules)
Categorize ==
    /\ pc = "ready"
    /\ result' = categorize(description, tx_type, user_rules)
    /\ pc' = "done"
    /\ UNCHANGED <<description, tx_type, user_rules>>
    /\ UNCHANGED <<dedupVars, serviceVars, typeVars, moduleVars, helperVars, bucketVars>>

Next == Categorize

CatSpec == Init /\ [][Next]_vars

Done == pc = "done"

(***************************************************************************)
(* Vocabulary of the properties                                            *)
(***************************************************************************)
DescLc == Norm(description)

\* what each of the four tiers returns for a description d, in cascade order
TierHits(d) ==
    <<_by_user_rules(d, user_rules), _by_mcc(d), _by_keywords(d), _by_rules(d, tx_type)>>

Matched(hits) == {k \in 1..4 : hits[k] # NoHit}

FirstMatched(hits) == CHOOSE k \in Matched(hits) : \A j \in Matched(hits) : k <= j

\* the side a call is categorized on: a missing type counts as expense
Side == IF tx_type = "income" THEN "income" ELSE "expense"

\* the pair a chosen (main, sub) is returned as
Returned(main, sub) ==
    <<IF Side = "income" /\ main \in DOMAIN EXPENSE_SUB THEN "Other Income"
      ELSE IF Side = "expense" /\ main \in DOMAIN INCOME_SUB THEN "Miscellaneous"
      ELSE main,
      IF sub \in {None, ""}
      THEN (IF main \in DOMAIN INCOME_SUB THEN INCOME_SUB[main][1]
            ELSE IF main \in DOMAIN EXPENSE_SUB THEN EXPENSE_SUB[main][1]
            ELSE "Unplanned Purchases")
      ELSE sub>>

\* the rules of the list whose pattern occurs in d
MatchingRules(d) == {i \in 1..Len(user_rules) : RuleMatches(user_rules[i], d)}

\* the length of a rule's pattern as it is matched: trimmed and lower-cased
PatLen(i) == Len(Norm(GetPattern(user_rules[i])))

RuleCategory(i) ==
    Returned(GetName(user_rules[i], "category_main"),
             GetName(user_rules[i], "category_sub"))

\* the keywords of the map that occur in d
OccurringKeywords(d) ==
    {k \in 1..Len(KEYWORD_MAP) : Contains(KEYWORD_MAP[k].kw, d)}

KeywordCategory(k) == Returned(KEYWORD_MAP[k].main, KEYWORD_MAP[k].sub)

\* a transfer, salary, cash/ATM, fee or tax marker of the heuristic tier
HasHeuristicMarker(d) == _by_rules(d, "expense") # NoHit

HasTransferOrSalaryMarker(d) ==
    _by_rules(d, "expense") \in
        {<<"Debts & Liabilities", "Loan Payment">>, <<"Salary & Wages", "Base Salary">>}

HasCashMarker(d) ==
    \/ Contains(<<"a", "t", "m">>, d)
    \/ Contains(<<"n", "a", "k", "i", "t">>, d)

IsTaxonomySub(main, sub) ==
    \/ main \in DOMAIN INCOME_SUB /\ \E n \in 1..Len(INCOME_SUB[main]) : INCOME_SUB[main][n] = sub
    \/ main \in DOMAIN EXPENSE_SUB /\ \E n \in 1..Len(EXPENSE_SUB[main]) : EXPENSE_SUB[main][n] = sub

RuleIsValidPair(r) ==
    /\ {"pattern", "category_main", "category_sub"} \subseteq DOMAIN r
    /\ IsTaxonomySub(r["category_main"], r["category_sub"])

(***************************************************************************)
(* C1: the returned pair is the pair of the first tier, in the order user  *)
(* rules, MCC, keywords, heuristics, that returns a result; no later tier  *)
(* changes it or adds to it.                                               *)
(***************************************************************************)
FirstTierDecides(hits) ==
    Matched(hits) # {} =>
        result = Returned(hits[FirstMatched(hits)][1], hits[FirstMatched(hits)][2])

C1_FirstTierWins == Done => FirstTierDecides(TierHits(DescLc))

\* the MCC tier and the keyword tier both match and disagree: the MCC tier decides
MccBeatsKeyword(hits) ==
    /\ hits[1] = NoHit
    /\ hits[2] # NoHit
    /\ hits[3] # NoHit
    /\ hits[2] # hits[3]
    /\ result = Returned(hits[2][1], hits[2][2])

C1_Witness == Done /\ MccBeatsKeyword(TierHits(DescLc))

(***************************************************************************)
(* C2: side coercion.  An income category chosen for an expense is         *)
(* returned as Miscellaneous, an expense category chosen for an income as  *)
(* Other Income; the main category of the wrong side is never returned.    *)
(***************************************************************************)
ChosenIsCoerced(hits) ==
    Matched(hits) # {} =>
        LET main == hits[FirstMatched(hits)][1]
        IN  /\ (tx_type = "expense" /\ main \in DOMAIN INCOME_SUB)
                   => result[1] = "Miscellaneous"
            /\ (tx_type = "income" /\ main \in DOMAIN EXPENSE_SUB)
                   => result[1] = "Other Income"

C2_SideCoercion ==
    Done =>
        /\ tx_type = "expense" => result[1] \notin DOMAIN INCOME_SUB
        /\ tx_type = "income" => result[1] \notin DOMAIN EXPENSE_SUB
        /\ ChosenIsCoerced(TierHits(DescLc))

\* an expense for which a user rule chose an income category
RuleChoseIncome(hits) == hits[1] # NoHit /\ hits[1][1] \in DOMAIN INCOME_SUB

C2_Witness ==
    /\ Done
    /\ tx_type = "expense"
    /\ RuleChoseIncome(TierHits(DescLc))
    /\ result[1] = "Miscellaneous"

(***************************************************************************)
(* C3: for a type income or expense and rules that name valid taxonomy     *)
(* pairs, the returned sub-category is one the taxonomy lists under the    *)
(* returned main category.                                                 *)
(***************************************************************************)
C3_ValidPair ==
    (/\ Done
     /\ tx_type \in {"income", "expense"}
     /\ \A i \in 1..Len(user_rules) : RuleIsValidPair(user_rules[i]))
        => IsTaxonomySub(result[1], result[2])

(***************************************************************************)
(* C4: neither category_main nor category_sub of the returned pair is      *)
(* null, whatever the description, the type and the rules.                 *)
(***************************************************************************)
C4_NeverNull ==
    Done => (result[1] # None /\ result[2] # None)

(***************************************************************************)
(* C5: when several user rules match, the category is that of a rule whose *)
(* pattern (as matched: trimmed, lower-cased) is longest; a rule with a    *)
(* shorter pattern never wins, whatever the list order and the weights.    *)
(***************************************************************************)
LongestDecides(M) ==
    M # {} =>
        \E i \in M :
            /\ \A j \in M : PatLen(j) <= PatLen(i)
            /\ result = RuleCategory(i)

C5_LongestPatternWins == Done => LongestDecides(MatchingRules(DescLc))

\* the shorter pattern comes first and has the greater weight; the longer wins
C5_Witness ==
    /\ Done
    /\ Len(user_rules) = 2
    /\ MatchingRules(DescLc) = {1, 2}
    /\ PatLen(1) < PatLen(2)
    /\ GetWeight(user_rules[1]) > GetWeight(user_rules[2])
    /\ RuleCategory(1) # RuleCategory(2)
    /\ result = RuleCategory(2)

(***************************************************************************)
(* C6: among the matching rules with the longest pattern the one with the  *)
(* greatest weight wins, a weight being the number the rule gives and 1.0  *)
(* only when the rule gives none.                                          *)
(***************************************************************************)
StatedWeight(i) ==
    IF "weight" \in DOMAIN user_rules[i] THEN user_rules[i]["weight"] ELSE 1

GreatestWeightDecides(M) ==
    M # {} =>
        \E i \in M :
            /\ \A j \in M :
                 \/ PatLen(j) < PatLen(i)
                 \/ PatLen(j) = PatLen(i) /\ StatedWeight(j) <= StatedWeight(i)
            /\ result = RuleCategory(i)

C6_GreatestWeightWins == Done => GreatestWeightDecides(MatchingRules(DescLc))

(***************************************************************************)
(* C7: a description that matches no user rule and holds no MCC code, no   *)
(* keyword and no heuristic marker gets (Other Income, Lottery/Prize) for  *)
(* an income and (Miscellaneous, Unplanned Purchases) otherwise.           *)
(***************************************************************************)
MatchesNothing(d) ==
    /\ MatchingRules(d) = {}
    /\ MccSearch(d) = <<>>
    /\ OccurringKeywords(d) = {}
    /\ ~HasHeuristicMarker(d)

C7_DefaultFallback ==
    (Done /\ MatchesNothing(DescLc))
        => result = IF tx_type = "income"
                    THEN <<"Other Income", "Lottery/Prize">>
                    ELSE <<"Miscellaneous", "Unplanned Purchases">>

(***************************************************************************)
(* C8: when no user rule and no MCC code decides, the category is that of  *)
(* the longest keyword of the map occurring in the lower-cased             *)
(* description, and among equally long ones of the first in map order.     *)
(***************************************************************************)
\* the longest keyword of K, the first of the map among equally long ones
BestKeyword(K) ==
    CHOOSE k \in K :
        \A j \in K :
           \/ Len(KEYWORD_MAP[j].kw) < Len(KEYWORD_MAP[k].kw)
           \/ /\ Len(KEYWORD_MAP[j].kw) = Len(KEYWORD_MAP[k].kw)
              /\ k <= j

KeywordTierReached(d) == MatchingRules(d) = {} /\ _by_mcc(d) = NoHit

BestKeywordDecides(K) == K # {} => result = KeywordCategory(BestKeyword(K))

C8_LongestKeywordWins ==
    (Done /\ KeywordTierReached(DescLc)) => BestKeywordDecides(OccurringKeywords(DescLc))

\* two equally long keywords of different categories occur, the later one of
\* the map first in the description; the earlier one of the map decides
TieDecidedByMapOrder(d, K) ==
    \E k, j \in K :
        /\ k < j
        /\ Len(KEYWORD_MAP[k].kw) = Len(KEYWORD_MAP[j].kw)
        /\ \A m \in K : Len(KEYWORD_MAP[m].kw) <= Len(KEYWORD_MAP[k].kw)
        /\ KEYWORD_MAP[k].main # KEYWORD_MAP[j].main
        /\ d = KEYWORD_MAP[j].kw \o <<" ">> \o KEYWORD_MAP[k].kw
        /\ result = KeywordCategory(k)
        /\ result # KeywordCategory(j)

C8_Witness ==
    /\ Done
    /\ KeywordTierReached(DescLc)
    /\ TieDecidedByMapOrder(DescLc, OccurringKeywords(DescLc))

(***************************************************************************)
(* C9: an expense whose description holds a cash/ATM marker ('atm' or      *)
(* 'nakit'), matches no user rule and holds no MCC code and no transfer or *)
(* salary marker gets (Miscellaneous, Unplanned Purchases).  Read in its   *)
(* weakest form: no keyword of the map other than the cash markers         *)
(* themselves occurs in the description.                                   *)
(***************************************************************************)
CashKeywords ==
    {<<"a", "t", "m">>,
     <<"n", "a", "k", "i", "t", " ", "c-cedilla", "e", "k", "i", "m">>}

CashMarkerCase(d) ==
    /\ HasCashMarker(d)
    /\ MatchingRules(d) = {}
    /\ MccSearch(d) = <<>>
    /\ ~HasTransferOrSalaryMarker(d)
    /\ \A k \in OccurringKeywords(d) : KEYWORD_MAP[k].kw \in CashKeywords

C9_CashMarker ==
    (Done /\ tx_type = "expense" /\ CashMarkerCase(DescLc))
        => result = <<"Miscellaneous", "Unplanned Purchases">>

(***************************************************************************)
(* main.py: deduplicate_transactions                                       *)
(*                                                                         *)
(* A transaction is a dictionary; date, description and amount are texts,  *)
(* confidence is counted in hundredths (0.85 is 85).                       *)
(***************************************************************************)
PrefixLen == 10

\* transaction.get(key, '')
GetText(tx, key) == IF key \in DOMAIN tx THEN tx[key] ELSE <<>>

\* transaction.get('confidence', 0)
GetConfidence(tx) == IF "confidence" \in DOMAIN tx THEN tx.confidence ELSE 0

\* the slice s[:n]
Prefix(s, n) == SubSeq(s, 1, IF Len(s) < n THEN Len(s) ELSE n)

KeyDescription(tx) == Lower(Prefix(GetText(tx, "description"), PrefixLen))

\* a key made of the first characters of the description as they are written
KeyAsWritten(tx) ==
    GetText(tx, "date") \o <<"_">> \o GetText(tx, "amount") \o <<"_">>
        \o Prefix(GetText(tx, "description"), PrefixLen)

\* f"{date}_{amount}_{description}"
comparison_key(tx) ==
    GetText(tx, "date") \o <<"_">> \o GetText(tx, "amount") \o <<"_">>
        \o KeyDescription(tx)

\* the indices of the kept transactions with the fields of tx (lines 638-645)
existing_indices(unique, tx) ==
    {i \in 1..Len(unique) :
        /\ GetText(unique[i], "date") = GetText(tx, "date")
        /\ GetText(unique[i], "amount") = GetText(tx, "amount")
        /\ KeyDescription(unique[i]) = KeyDescription(tx)}

\* lines 649-653: tx replaces every kept transaction of lower confidence
KeepHigher(unique, idxs, tx) ==
    [i \in 1..Len(unique) |->
        IF i \in idxs /\ GetConfidence(tx) > GetConfidence(unique[i])
        THEN tx ELSE unique[i]]

\* one iteration of the loop of line 626 on the state (unique, seen_keys)
DedupStep(tx, st) ==
    IF comparison_key(tx) \in st.seen_keys THEN st
    ELSE LET idxs == existing_indices(st.unique, tx)
         IN  [seen_keys |-> st.seen_keys \cup {comparison_key(tx)},
              unique |-> IF idxs # {} THEN KeepHigher(st.unique, idxs, tx)
                         ELSE Append(st.unique, tx)]

RECURSIVE DedupLoop(_, _)
DedupLoop(txs, st) ==
    IF txs = <<>> THEN st ELSE DedupLoop(Tail(txs), DedupStep(Head(txs), st))

deduplicate_transactions(txs) ==
    IF txs = <<>> THEN <<>>
    ELSE DedupLoop(txs, [seen_keys |-> {}, unique |-> <<>>]).unique

(***************************************************************************)
(* Calls deduplicate_transactions(transactions)                            *)
(***************************************************************************)
MaxTx == 3

\* three spellings of one purchase met with three confidences, the same
\* purchase with another amount, and a salary met with and without confidence
DedupPool ==
    {
    [date |-> <<"2", "0", "2", "4", "-", "0", "3", "-", "0", "2">>,
     description |-> <<"S", "t", "a", "r", "b", "u", "c", "k", "s", " ", "C", "o", "f", "f", "e", "e", " ", "B", "e", "s", "i", "k", "t", "a", "s">>,
     amount |-> <<"-", "5", ".", "0", "0">>, category |-> "Other", confidence |-> 85],
    [date |-> <<"2", "0", "2", "4", "-", "0", "3", "-", "0", "2">>,
     description |-> <<"S", "T", "A", "R", "B", "U", "C", "K", "S", " ", "C", "O", "F", "F", "E", "E">>,
     amount |-> <<"-", "5", ".", "0", "0">>, category |-> "Other", confidence |-> 60],
    [date |-> <<"2", "0", "2", "4", "-", "0", "3", "-", "0", "2">>,
     description |-> <<"S", "t", "a", "r", "b", "u", "c", "k", "s", " ", "C", "o">>,
     amount |-> <<"-", "5", ".", "0", "0">>, category |-> "Other", confidence |-> 75],
    [date |-> <<"2", "0", "2", "4", "-", "0", "3", "-", "0", "2">>,
     description |-> <<"S", "t", "a", "r", "b", "u", "c", "k", "s", " ", "C", "o", "f", "f", "e", "e", " ", "B", "e", "s", "i", "k", "t", "a", "s">>,
     amount |-> <<"5", ".", "0", "0">>, category |-> "Other", confidence |-> 70],
    [date |-> <<"2", "0", "2", "4", "-", "0", "1", "-", "1", "5">>,
     description |-> <<"S", "a", "l", "a", "r", "y">>,
     amount |-> <<"1", "2", "0", "0", ".", "0", "0">>, category |-> "Other", confidence |-> 85],
    [date |-> <<"2", "0", "2", "4", "-", "0", "1", "-", "1", "5">>,
     description |-> <<"S", "a", "l", "a", "r", "y">>,
     amount |-> <<"1", "2", "0", "0", ".", "0", "0">>]
    }

DedupInit ==
    /\ transactions \in SeqsUpTo(DedupPool, MaxTx)
    /\ unique_transactions = <<>>
    /\ dpc = "ready"
    /\ CatIdle
    /\ ServiceIdle
    /\ TypeIdle
    /\ ModuleIdle
    /\ HelperIdle
    /\ BucketIdle

Deduplicate ==
    /\ dpc = "ready"
    /\ unique_transactions' = deduplicate_transactions(transactions)
    /\ dpc' = "done"
    /\ UNCHANGED <<transactions, catVars, serviceVars, typeVars, moduleVars, helperVars, bucketVars>>

DedupNext == Deduplicate

DedupSpec == DedupInit /\ [][DedupNext]_vars

(***************************************************************************)
(* C16: for every input list and every group of records that share date,   *)
(* amount and the lower-cased first 10 characters of the description, the  *)
(* output of deduplicate_transactions holds exactly one record of the      *)
(* group, and its confidence is the greatest confidence in the group,      *)
(* whatever the order of the records in the input.                         *)
(***************************************************************************)
SameGroup(a, b) ==
    /\ GetText(a, "date") = GetText(b, "date")
    /\ GetText(a, "amount") = GetText(b, "amount")
    /\ KeyDescription(a) = KeyDescription(b)

GroupIn(txs, tx) == {i \in 1..Len(txs) : SameGroup(txs[i], tx)}

BestOfGroupKept(input, output) ==
    \A i \in 1..Len(input) :
        LET kept == GroupIn(output, input[i])
        IN  /\ Cardinality(kept) = 1
            /\ \A k \in kept : \A j \in GroupIn(input, input[i]) :
                   GetConfidence(output[k]) >= GetConfidence(input[j])

C16_DedupKeepsBest ==
    dpc = "done" => BestOfGroupKept(transactions, unique_transactions)

(***************************************************************************)
(* main.py: extract_transactions_from_pdf                                  *)
(*                                                                         *)
(* The document reaches the function through PyMuPDF, pdf2image and        *)
(* pytesseract: what each strategy finds in it, whether it looks scanned   *)
(* and whether a call of a library raises are chosen where the call is     *)
(* made.  fault records the call that raised ("none": no call did).        *)
(***************************************************************************)
MaxRows == 2

OcrThreshold == 3
QualityHigh == 10
QualityMedium == 3

\* lines 150-156
InitialResult ==
    [transactions |-> <<>>, extraction_method |-> "combined",
     document_type |-> "unknown", quality |-> "medium", page_count |-> 0]

\* the dictionary returned by the except clause, lines 215-225
FailedResult(e) ==
    [transactions |-> <<>>, extraction_method |-> "failed",
     document_type |-> "unknown", quality |-> "error", error |-> e,
     page_count |-> 0]

\* lines 161-172: the page count and the type read off the first page
OpenedDocuments ==
    {[page_count |-> 0, document_type |-> "financial_document"]}
    \cup [page_count : {1},
          document_type : {"bank_statement", "invoice", "financial_document"}]

\* the dictionary a strategy builds for a line (lines 348-354, 405-411,
\* 442-448, 588-594)
Row(date, desc, amount, confidence) ==
    [date |-> date, description |-> desc, amount |-> amount,
     category |-> "Other", confidence |-> confidence]

\* rows the strategies find: text rows carry 0.85, pattern rows 0.75, OCR
\* rows 0.6; the text strategy skips the line holding 'transaction', the
\* pattern strategy does not
FoundPool ==
    ("text" :>
        {Row(<<"2", "0", "2", "4", "-", "0", "3", "-", "0", "2">>,
             <<"S", "t", "a", "r", "b", "u", "c", "k", "s", " ", "C", "o", "f", "f", "e", "e">>,
             <<"5", ".", "0", "0">>, 85),
         Row(<<"2", "0", "2", "4", "-", "0", "1", "-", "1", "5">>,
             <<"S", "a", "l", "a", "r", "y">>,
             <<"1", "2", "0", "0", ".", "0", "0">>, 85)})
    @@ ("pattern" :>
        {Row(<<"2", "0", "2", "4", "-", "0", "3", "-", "0", "2">>,
             <<"S", "t", "a", "r", "b", "u", "c", "k", "s", " ", "C", "o", "f", "f", "e", "e">>,
             <<"5", ".", "0", "0">>, 75),
         Row(<<"2", "0", "2", "4", "-", "0", "2", "-", "1", "0">>,
             <<"A", "T", "M", " ", "t", "r", "a", "n", "s", "a", "c", "t", "i", "o", "n", " ", "f", "e", "e">>,
             <<"2", ".", "5", "0">>, 75)})
    @@ ("ocr" :>
        {Row(<<"2", "0", "2", "4", "-", "0", "3", "-", "0", "2">>,
             <<"S", "t", "a", "r", "b", "u", "c", "k", "s", " ", "C", "o", "f", "f", "e", "e">>,
             <<"5", ".", "0", "0">>, 60),
         Row(<<"2", "0", "2", "4", "-", "0", "1", "-", "2", "0">>,
             <<"T", "r", "a", "n", "s", "a", "c", "t", "i", "o", "n">>,
             <<"-", "9", ".", "9", "9">>, 60)})

\* the rows of a long statement, one a day: seven lines the text strategy
\* finds, four other lines the pattern strategy finds
LongStatement ==
    ("text" :>
        [i \in 1..7 |->
            Row(<<"2", "0", "2", "4", "-", "0", "4", "-", "0",
                  <<"1", "2", "3", "4", "5", "6", "7">>[i]>>,
                <<"P", "O", "S">>, <<"-", "1", "0", ".", "0", "0">>, 85)])
    @@ ("pattern" :>
        [i \in 1..4 |->
            Row(<<"2", "0", "2", "4", "-", "0", "5", "-", "1",
                  <<"1", "2", "3", "4">>[i]>>,
                <<"P", "O", "S">>, <<"2", "0", ".", "0", "0">>, 75)])
    @@ ("ocr" :> <<>>)

\* what a strategy can find in the opened document: nothing without pages
Found(strategy) ==
    IF extraction_result.page_count = 0 THEN {<<>>}
    ELSE SeqsUpTo(FoundPool[strategy], MaxRows) \cup {LongStatement[strategy]}

\* a cascade that keeps the rows of the first strategy that found any
ExtendFirstNonEmpty(all, rows) == IF all # <<>> THEN all ELSE rows

\* all_transactions.extend(rows)
Extend(all, rows) == all \o rows

\* the comparison of line 191 written with <=
OcrNeededBelowOrAt(enable_ocr, scanned, n) ==
    enable_ocr /\ (scanned \/ n <= OcrThreshold)

\* line 191: the condition under which the OCR strategy is called
OcrNeeded(enable_ocr, scanned, n) ==
    enable_ocr /\ (scanned \/ n < OcrThreshold)

\* an OCR strategy without the try of line 456
OcrLetsErrorsThrough(found, fails) ==
    [raised |-> fails, rows |-> found]

\* extract_transactions_with_ocr: the rows found, or [] when anything in it
\* raised (lines 601-603); raised tells whether the exception leaves it
extract_transactions_with_ocr(found, fails) ==
    [raised |-> FALSE, rows |-> IF fails THEN <<>> ELSE found]

\* the comparisons of lines 203 and 205 written with >=
QualityFromThreshold(n) ==
    IF n >= QualityHigh THEN "high"
    ELSE IF n >= QualityMedium THEN "medium"
    ELSE "low"

\* lines 203-208
QualityOf(n) ==
    IF n > QualityHigh THEN "high"
    ELSE IF n > QualityMedium THEN "medium"
    ELSE "low"

ServiceInit ==
    /\ options \in [enable_ocr : BOOLEAN]
    /\ text_transactions = <<>>
    /\ pattern_transactions = <<>>
    /\ ocr_transactions = <<>>
    /\ all_transactions = <<>>
    /\ is_scanned = FALSE
    /\ ocr_invoked = FALSE
    /\ fault = "none"
    /\ extraction_result = InitialResult
    /\ spc = "start"
    /\ CatIdle
    /\ DedupIdle
    /\ TypeIdle
    /\ ModuleIdle
    /\ HelperIdle
    /\ BucketIdle

\* a handler that returns the dictionary built so far
HandlerKeepsResult(e) ==
    /\ fault' = e
    /\ extraction_result' = extraction_result
    /\ spc' = "done"

\* an exception raised in the try block: lines 215-225
Except(e) ==
    /\ fault' = e
    /\ extraction_result' = FailedResult(e)
    /\ spc' = "done"

\* lines 160-174
OpenPdf ==
    /\ spc = "start"
    /\ \/ Except("open")
       \/ \E d \in OpenedDocuments :
            /\ extraction_result' =
                   [extraction_result EXCEPT !.page_count = d.page_count,
                                             !.document_type = d.document_type]
            /\ spc' = "text"
            /\ UNCHANGED fault
    /\ UNCHANGED <<options, text_transactions, pattern_transactions,
                   ocr_transactions, all_transactions, is_scanned, ocr_invoked>>
    /\ UNCHANGED <<catVars, dedupVars, typeVars, moduleVars, helperVars, bucketVars>>

\* lines 177-182
TextExtraction ==
    /\ spc = "text"
    /\ \/ Except("text") /\ UNCHANGED <<text_transactions, all_transactions>>
       \/ \E rows \in Found("text") :
            /\ text_transactions' = rows
            /\ all_transactions' = Extend(all_transactions, rows)
            /\ spc' = "pattern"
            /\ UNCHANGED <<fault, extraction_result>>
    /\ UNCHANGED <<options, pattern_transactions, ocr_transactions,
                   is_scanned, ocr_invoked>>
    /\ UNCHANGED <<catVars, dedupVars, typeVars, moduleVars, helperVars, bucketVars>>

\* lines 185-187
PatternExtraction ==
    /\ spc = "pattern"
    /\ \/ Except("pattern") /\ UNCHANGED <<pattern_transactions, all_transactions>>
       \/ \E rows \in Found("pattern") :
            /\ pattern_transactions' = rows
            /\ all_transactions' = Extend(all_transactions, rows)
            /\ spc' = "scan"
            /\ UNCHANGED <<fault, extraction_result>>
    /\ UNCHANGED <<options, text_transactions, ocr_transactions,
                   is_scanned, ocr_invoked>>
    /\ UNCHANGED <<catVars, dedupVars, typeVars, moduleVars, helperVars, bucketVars>>

\* line 190, is_scanned_document (lines 605-616): no page, no text, scanned
CheckScanned ==
    /\ spc = "scan"
    /\ \/ Except("scan") /\ UNCHANGED is_scanned
       \/ \E scanned \in (IF extraction_result.page_count = 0
                          THEN {TRUE} ELSE BOOLEAN) :
            /\ is_scanned' = scanned
            /\ spc' = "ocr"
            /\ UNCHANGED <<fault, extraction_result>>
    /\ UNCHANGED <<options, text_transactions, pattern_transactions,
                   ocr_transactions, all_transactions, ocr_invoked>>
    /\ UNCHANGED <<catVars, dedupVars, typeVars, moduleVars, helperVars, bucketVars>>

\* lines 191-196
OcrExtraction ==
    /\ spc = "ocr"
    /\ OcrNeeded(options.enable_ocr, is_scanned, Len(all_transactions))
    /\ ocr_invoked' = TRUE
    /\ \E fails \in BOOLEAN :
       \E found \in (IF fails THEN {<<>>} ELSE Found("ocr")) :
          LET r == extract_transactions_with_ocr(found, fails)
          IN  IF r.raised
              THEN /\ Except("ocr")
                   /\ UNCHANGED <<ocr_transactions, all_transactions>>
              ELSE /\ ocr_transactions' = r.rows
                   /\ all_transactions' = Extend(all_transactions, r.rows)
                   /\ extraction_result' =
                          [extraction_result EXCEPT
                              !.extraction_method = "combined-with-ocr"]
                   /\ fault' = IF fails THEN "ocr" ELSE "none"
                   /\ spc' = "finish"
    /\ UNCHANGED <<options, text_transactions, pattern_transactions, is_scanned>>
    /\ UNCHANGED <<catVars, dedupVars, typeVars, moduleVars, helperVars, bucketVars>>

\* line 191, condition false
SkipOcr ==
    /\ spc = "ocr"
    /\ ~OcrNeeded(options.enable_ocr, is_scanned, Len(all_transactions))
    /\ spc' = "finish"
    /\ UNCHANGED <<options, text_transactions, pattern_transactions,
                   ocr_transactions, all_transactions, is_scanned,
                   ocr_invoked, fault, extraction_result>>
    /\ UNCHANGED <<catVars, dedupVars, typeVars, moduleVars, helperVars, bucketVars>>

\* lines 199-213
Finish ==
    /\ spc = "finish"
    /\ LET unique == deduplicate_transactions(all_transactions)
       IN  extraction_result' =
               [extraction_result EXCEPT !.transactions = unique,
                                         !.quality = QualityOf(Len(unique))]
    /\ spc' = "done"
    /\ UNCHANGED <<options, text_transactions, pattern_transactions,
                   ocr_transactions, all_transactions, is_scanned,
                   ocr_invoked, fault>>
    /\ UNCHANGED <<catVars, dedupVars, typeVars, moduleVars, helperVars, bucketVars>>

ServiceNext ==
    \/ OpenPdf
    \/ TextExtraction
    \/ PatternExtraction
    \/ CheckScanned
    \/ OcrExtraction
    \/ SkipOcr
    \/ Finish

ServiceSpec == ServiceInit /\ [][ServiceNext]_vars

(***************************************************************************)
(* Vocabulary of the properties of the service pipeline                    *)
(***************************************************************************)
RowsBeforeOcr == Len(text_transactions) + Len(pattern_transactions)

Returned_rows == extraction_result.transactions

\* no call raised out of its function: the try block ran to its end
RanThrough == fault \in {"none", "ocr"}

Represented(row, out) == \E k \in 1..Len(out) : SameGroup(out[k], row)

AllRepresented(rows, out) ==
    \A i \in 1..Len(rows) : Represented(rows[i], out)

DigitValue ==
    ("0" :> 0) @@ ("1" :> 1) @@ ("2" :> 2) @@ ("3" :> 3) @@ ("4" :> 4)
    @@ ("5" :> 5) @@ ("6" :> 6) @@ ("7" :> 7) @@ ("8" :> 8) @@ ("9" :> 9)

\* the day a date YYYY-MM-DD names, as the number YYYYMMDD
IsoDateNumber(d) ==
    ((((((DigitValue[d[1]] * 10 + DigitValue[d[2]]) * 10 + DigitValue[d[3]]) * 10
        + DigitValue[d[4]]) * 10 + DigitValue[d[6]]) * 10 + DigitValue[d[7]]) * 10
        + DigitValue[d[9]]) * 10 + DigitValue[d[10]]

(***************************************************************************)
(* C11 as claimed: whenever text extraction has produced at least one row, *)
(* the OCR extraction step is not invoked.                                 *)
(***************************************************************************)
C11_NoOcrAfterTextRows == ocr_invoked => text_transactions = <<>>

(***************************************************************************)
(* C11 as amended: the OCR extraction step is invoked only when OCR is     *)
(* enabled and the document looks scanned or the text and pattern          *)
(* strategies together produced fewer than 3 rows; with at least 3 rows    *)
(* from a document that does not look scanned, OCR is not invoked.         *)
(***************************************************************************)
C11_OcrOnlyWhenNeeded ==
    ocr_invoked =>
        /\ options.enable_ocr
        /\ is_scanned \/ RowsBeforeOcr < OcrThreshold

C11_Witness ==
    /\ spc = "done"
    /\ text_transactions # <<>>
    /\ options.enable_ocr
    /\ ~is_scanned
    /\ RowsBeforeOcr >= OcrThreshold
    /\ ~ocr_invoked

(***************************************************************************)
(* C12 as claimed: when the text strategy yields N > 0 rows (and no call   *)
(* raises), the returned rows are exactly the rows of the text strategy    *)
(* and the returned method label names that strategy.                      *)
(***************************************************************************)
C12_FirstNonEmptyWins ==
    (spc = "done" /\ fault = "none" /\ text_transactions # <<>>) =>
        /\ Returned_rows = text_transactions
        /\ extraction_result.extraction_method = "text"

(***************************************************************************)
(* C12 as amended: when the text strategy yields N > 0 rows, the returned  *)
(* rows are the rows of all strategies merged: the text rows come first,   *)
(* one per duplicate group, every row of the pattern and OCR strategies is *)
(* represented by a row of its group, no other row is returned, and the    *)
(* label is "combined-with-ocr" when OCR was invoked and "combined"        *)
(* otherwise; when a call raised, no row is returned under "failed".       *)
(***************************************************************************)
C12_CombinedResult ==
    (spc = "done" /\ text_transactions # <<>>) =>
        IF RanThrough
        THEN LET first == deduplicate_transactions(text_transactions)
             IN  /\ Len(first) <= Len(Returned_rows)
                 /\ SubSeq(Returned_rows, 1, Len(first)) = first
                 /\ AllRepresented(pattern_transactions, Returned_rows)
                 /\ AllRepresented(ocr_transactions, Returned_rows)
                 /\ \A k \in 1..Len(Returned_rows) :
                        \E i \in 1..Len(all_transactions) :
                            Returned_rows[k] = all_transactions[i]
                 /\ extraction_result.extraction_method =
                        (IF ocr_invoked THEN "combined-with-ocr" ELSE "combined")
        ELSE /\ Returned_rows = <<>>
             /\ extraction_result.extraction_method = "failed"

C12_Witness ==
    /\ spc = "done"
    /\ fault = "none"
    /\ text_transactions # <<>>
    /\ \E k \in 1..Len(Returned_rows) :
           \A i \in 1..Len(text_transactions) :
               Returned_rows[k] # text_transactions[i]

(***************************************************************************)
(* C15: when the OCR step fails, it contributes zero rows and no error:    *)
(* the function goes on, and the rows found by the text and pattern        *)
(* strategies before it are returned (one per duplicate group).            *)
(***************************************************************************)
C15_OcrFailureContained ==
    fault = "ocr" =>
        /\ ocr_invoked
        /\ ocr_transactions = <<>>
        /\ "error" \notin DOMAIN extraction_result
        /\ spc = "done" =>
              /\ extraction_result.extraction_method # "failed"
              /\ AllRepresented(text_transactions, Returned_rows)
              /\ AllRepresented(pattern_transactions, Returned_rows)
              /\ Returned_rows =
                     deduplicate_transactions(text_transactions \o pattern_transactions)

C15_Witness ==
    /\ spc = "done"
    /\ fault = "ocr"
    /\ text_transactions # <<>>
    /\ pattern_transactions # <<>>
    /\ Len(Returned_rows) >= 2

(***************************************************************************)
(* C17: the final transaction list returned by                             *)
(* extract_transactions_from_pdf is sorted by date, ascending.             *)
(***************************************************************************)
C17_SortedByDate ==
    spc = "done" =>
        \A i \in 1..(Len(Returned_rows) - 1) :
            IsoDateNumber(Returned_rows[i].date)
                <= IsoDateNumber(Returned_rows[i + 1].date)

(***************************************************************************)
(* pdf_extractor.py: keyword sets and detect_transaction_type              *)
(*                                                                         *)
(* A float is the record [neg, digits, scale]: the number digits / 10^scale*)
(* with its sign bit (-0.0 is [neg |-> TRUE, digits |-> 0, ...]).          *)
(***************************************************************************)
EXPENSE_KEYWORDS ==
    <<
    <<"m", "a", "r", "k", "e", "t">>,
    <<"s", "u", "p", "e", "r", "m", "a", "r", "k", "e", "t">>,
    <<"g", "r", "o", "c", "e", "r", "y">>,
    <<"b", "a", "k", "k", "a", "l">>,
    <<"f", "o", "o", "d">>,
    <<"g", "dotless-i", "d", "a">>,
    <<"r", "e", "s", "t", "a", "u", "r", "a", "n", "t">>,
    <<"r", "e", "s", "t", "o", "r", "a", "n">>,
    <<"c", "a", "f", "e">>,
    <<"k", "a", "f", "e">>,
    <<"c", "o", "f", "f", "e", "e">>,
    <<"k", "a", "h", "v", "e">>,
    <<"f", "u", "e", "l">>,
    <<"g", "a", "s">>,
    <<"b", "e", "n", "z", "i", "n">>,
    <<"a", "k", "a", "r", "y", "a", "k", "dotless-i", "t">>,
    <<"o", "t", "o", "p", "a", "r", "k">>,
    <<"o", "t", "o", "p", "a", "r", "k">>,
    <<"u", "b", "e", "r">>,
    <<"t", "a", "k", "s", "i">>,
    <<"t", "a", "x", "i">>,
    <<"m", "e", "t", "r", "o">>,
    <<"o", "t", "o", "b", "u-umlaut", "s">>,
    <<"b", "u", "s">>,
    <<"t", "r", "a", "m">>,
    <<"o", "n", "l", "i", "n", "e", " ", "s", "h", "o", "p", "p", "i", "n", "g">>,
    <<"a", "l", "dotless-i", "s-cedilla", "v", "e", "r", "i", "s-cedilla">>,
    <<"s", "h", "o", "p">>,
    <<"m", "a", "g-breve", "a", "z", "a">>,
    <<"f", "a", "t", "u", "r", "a">>,
    <<"b", "i", "l", "l">>,
    <<"e", "l", "e", "c", "t", "r", "i", "c">>,
    <<"s", "u">>,
    <<"d", "o", "g-breve", "a", "l", "g", "a", "z">>,
    <<"i", "n", "t", "e", "r", "n", "e", "t">>,
    <<"k", "i", "r", "a">>,
    <<"r", "e", "n", "t">>,
    <<"m", "o", "r", "t", "g", "a", "g", "e">>,
    <<"o", "t", "e", "l">>,
    <<"h", "o", "t", "e", "l">>,
    <<"t", "a", "t", "i", "l">>,
    <<"t", "r", "a", "v", "e", "l">>,
    <<"p", "o", "s">>,
    <<"a", "t", "m">>,
    <<"o-umlaut", "d", "e", "m", "e">>,
    <<"p", "a", "y", "m", "e", "n", "t">>,
    <<"w", "i", "t", "h", "d", "r", "a", "w", "a", "l">>,
    <<"c-cedilla", "e", "k", "i", "m">>
    >>

INCOME_KEYWORDS ==
    <<
    <<"s", "a", "l", "a", "r", "y">>,
    <<"m", "a", "a", "s-cedilla">>,
    <<"w", "a", "g", "e">>,
    <<"p", "a", "y", "r", "o", "l", "l">>,
    <<"d", "e", "p", "o", "s", "i", "t">>,
    <<"y", "a", "t", "dotless-i", "r", "m", "a">>,
    <<"h", "a", "v", "a", "l", "e">>,
    <<"e", "f", "t">>,
    <<"v", "i", "r", "m", "a", "n">>,
    <<"i", "n", "c", "o", "m", "i", "n", "g", " ", "t", "r", "a", "n", "s", "f", "e", "r">>,
    <<"g", "e", "l", "e", "n", " ", "h", "a", "v", "a", "l", "e">>,
    <<"r", "e", "f", "u", "n", "d">>,
    <<"i", "a", "d", "e">>,
    <<"i", "n", "t", "e", "r", "e", "s", "t">>,
    <<"f", "a", "i", "z">>,
    <<"b", "o", "n", "u", "s">>,
    <<"p", "r", "i", "z", "e">>
    >>

TRANSFER_KEYWORDS ==
    <<
    <<"t", "r", "a", "n", "s", "f", "e", "r">>,
    <<"v", "i", "r", "m", "a", "n">>,
    <<"h", "a", "v", "a", "l", "e">>,
    <<"e", "f", "t">>
    >>

Float(neg, digits, scale) == [neg |-> neg, digits |-> digits, scale |-> scale]

\* the comparisons v < 0 and v > 0
IsNegative(v) == v.neg /\ v.digits > 0

IsPositive(v) == ~v.neg /\ v.digits > 0

\* (description or "").lower()
DescLower(desc) == IF desc = NoneStr THEN <<>> ELSE Lower(desc)

\* any(k in desc for k in keywords)
AnyKeyword(keywords, desc) ==
    \E i \in 1..Len(keywords) : Contains(keywords[i], desc)

\* a classification with a fourth value for an amount of zero
DetectUnknownForZero(desc, amount) ==
    LET d == DescLower(desc)
    IN  IF AnyKeyword(TRANSFER_KEYWORDS, d) THEN "Transfer"
        ELSE IF AnyKeyword(EXPENSE_KEYWORDS, d) THEN "Expense"
        ELSE IF AnyKeyword(INCOME_KEYWORDS, d) THEN "Income"
        ELSE IF IsNegative(amount) THEN "Expense"
        ELSE IF IsPositive(amount) THEN "Income"
        ELSE "Unknown"

detect_transaction_type(desc, amount) ==
    LET d == DescLower(desc)
    IN  IF AnyKeyword(TRANSFER_KEYWORDS, d) THEN "Transfer"
        ELSE IF AnyKeyword(EXPENSE_KEYWORDS, d) THEN "Expense"
        ELSE IF AnyKeyword(INCOME_KEYWORDS, d) THEN "Income"
        ELSE IF IsNegative(amount) THEN "Expense"
        ELSE IF IsPositive(amount) THEN "Income"
        ELSE "Transfer"

(***************************************************************************)
(* Calls detect_transaction_type(description, amount_value)                *)
(***************************************************************************)
MaxTypeWords == 2

\* income, expense and transfer keywords, alone and inside other words
TypeVocabulary ==
    <<
    <<"d", "e", "p", "o", "s", "i", "t">>,
    <<"S", "a", "l", "a", "r", "y">>,
    <<"p", "a", "y", "m", "e", "n", "t">>,
    <<"M", "a", "r", "k", "e", "t">>,
    <<"t", "r", "a", "n", "s", "f", "e", "r">>,
    <<"m", "a", "a", "s-cedilla">>,
    <<"r", "e", "f", "u", "n", "d">>,
    <<"x", "y", "z">>
    >>

\* -12.50, -0.0, 0.0 and 12.50
TypeAmounts ==
    {Float(TRUE, 1250, 2), Float(TRUE, 0, 2), Float(FALSE, 0, 2),
     Float(FALSE, 1250, 2)}

\* " ".join(words)
RECURSIVE JoinWords(_)
JoinWords(words) ==
    IF words = <<>> THEN <<>>
    ELSE IF Len(words) = 1 THEN words[1]
    ELSE words[1] \o <<" ">> \o JoinWords(Tail(words))

TypeInit ==
    /\ type_description \in
           {JoinWords(ws) : ws \in SeqsUpTo({TypeVocabulary[i] : i \in 1..Len(TypeVocabulary)},
                                            MaxTypeWords)}
           \cup {NoneStr}
    /\ amount_value \in TypeAmounts
    /\ transaction_type = None
    /\ tpc = "ready"
    /\ CatIdle
    /\ DedupIdle
    /\ ServiceIdle
    /\ ModuleIdle
    /\ HelperIdle
    /\ BucketIdle

DetectType ==
    /\ tpc = "ready"
    /\ transaction_type' = detect_transaction_type(type_description, amount_value)
    /\ tpc' = "done"
    /\ UNCHANGED <<type_description, amount_value>>
    /\ UNCHANGED <<catVars, dedupVars, serviceVars, moduleVars, helperVars, bucketVars>>

TypeNext == DetectType

TypeSpec == TypeInit /\ [][TypeNext]_vars

(***************************************************************************)
(* C20: for a description with no transfer marker,                         *)
(* detect_transaction_type returns income whenever the description matches *)
(* an income keyword, also when it matches an expense keyword as well;     *)
(* the expense keywords decide only when no income keyword matches, and    *)
(* the sign of the amount only when neither set matches.                   *)
(***************************************************************************)
IncomeBeforeExpense(d, amount, type) ==
    ~AnyKeyword(TRANSFER_KEYWORDS, d) =>
        IF AnyKeyword(INCOME_KEYWORDS, d) THEN type = "Income"
        ELSE IF AnyKeyword(EXPENSE_KEYWORDS, d) THEN type = "Expense"
        ELSE /\ IsNegative(amount) => type = "Expense"
             /\ IsPositive(amount) => type = "Income"

C20_IncomeBeforeExpense ==
    tpc = "done" =>
        IncomeBeforeExpense(DescLower(type_description), amount_value,
                            transaction_type)

(***************************************************************************)
(* pdf_extractor.py: DATE_PATTERN, AMOUNT_PATTERN and the text methods     *)
(* used on their matches.  A match is given by the index of its last       *)
(* character, 0 when the pattern does not match at the start index.        *)
(***************************************************************************)

\* the class [A-Za-z...] of DATE_PATTERN: ASCII and Turkish letters
Letters ==
    {"a", "b", "c", "d", "e", "f", "g", "h", "i", "j", "k", "l", "m", "n", "o",
     "p", "q", "r", "s", "t", "u", "v", "w", "x", "y", "z",
     "A", "B", "C", "D", "E", "F", "G", "H", "I", "J", "K", "L", "M", "N", "O",
     "P", "Q", "R", "S", "T", "U", "V", "W", "X", "Y", "Z",
     "C-cedilla", "G-breve", "I-dot", "O-umlaut", "S-cedilla", "U-umlaut",
     "c-cedilla", "g-breve", "dotless-i", "o-umlaut", "s-cedilla", "u-umlaut"}

\* the length of the longest run of characters of S that starts at d[i]:
\* what a greedy \d+, \s+ or [...]+ consumes there
RunLength(d, i, S) ==
    IF i > Len(d) THEN 0
    ELSE LET stops == {j \in i..Len(d) : d[j] \notin S}
         IN  IF stops = {} THEN Len(d) - i + 1
             ELSE (CHOOSE j \in stops : \A k \in stops : j <= k) - i

\* DATE_PATTERN (lines 35-42) tried at d[i]
DateMatchEnd(d, i) ==
    LET a == RunLength(d, i, Digits)
        YearEnd(p) ==
            LET c == RunLength(d, p, Digits)
            IN  IF c \in 2..4 /\ WordBoundary(d, p + c - 1) THEN p + c - 1 ELSE 0
        numeric ==
            LET b == RunLength(d, i + a + 1, Digits)
            IN  IF /\ i + a <= Len(d)
                   /\ d[i + a] \in {".", "/", "-"}
                   /\ b \in 1..2
                   /\ i + a + 1 + b <= Len(d)
                   /\ d[i + a + 1 + b] \in {".", "/", "-"}
                THEN YearEnd(i + a + b + 2)
                ELSE 0
        named ==
            LET s1 == RunLength(d, i + a, {" "})
                l == RunLength(d, i + a + s1, Letters)
                s2 == RunLength(d, i + a + s1 + l, {" "})
            IN  IF s1 >= 1 /\ l >= 3 /\ s2 >= 1
                THEN YearEnd(i + a + s1 + l + s2)
                ELSE 0
    IN  IF ~WordBoundary(d, i - 1) \/ a \notin 1..2 THEN 0
        ELSE IF numeric # 0 THEN numeric
        ELSE named

\* DATE_PATTERN.search(d): group(0) of the leftmost match, None without one
DateSearch(d) ==
    LET starts == {i \in 1..Len(d) : DateMatchEnd(d, i) # 0}
    IN  IF starts = {} THEN NoneStr
        ELSE LET i == CHOOSE i \in starts : \A j \in starts : i <= j
             IN  SubSeq(d, i, DateMatchEnd(d, i))

\* AMOUNT_PATTERN (lines 45-47) tried at d[i]: the first alternative, with
\* groups of thousands, then the second one between word boundaries
AmountMatchEnd(d, i) ==
    LET p == IF i <= Len(d) /\ d[i] \in {"-", "+"} THEN i + 1 ELSE i
        n == RunLength(d, p, Digits)
        q == p + n
        Decimals(k) ==
            k + 2 <= Len(d) /\ d[k] \in {".", ","} /\ AllDigits(d, k + 1, k + 2)
        Thousands(k) ==
            k + 3 <= Len(d) /\ d[k] \in {".", ","} /\ AllDigits(d, k + 1, k + 3)
        g == CHOOSE m \in 0..Len(d) :
                 /\ \A j \in 0..(m - 1) : Thousands(q + 4 * j)
                 /\ ~Thousands(q + 4 * m)
        grouped ==
            IF n \notin 1..3 THEN 0
            ELSE IF Decimals(q + 4 * g) THEN q + 4 * g + 2
            ELSE IF g >= 1 THEN q + 4 * (g - 1) + 2
            ELSE 0
        plain ==
            IF n >= 1 /\ WordBoundary(d, i - 1) /\ Decimals(q)
                      /\ WordBoundary(d, q + 2)
            THEN q + 2 ELSE 0
    IN  IF grouped # 0 THEN grouped ELSE plain

\* AMOUNT_PATTERN.findall(d), scanning from d[i]
RECURSIVE AmountFindall(_, _)
AmountFindall(d, i) ==
    IF i > Len(d) THEN <<>>
    ELSE LET e == AmountMatchEnd(d, i)
         IN  IF e # 0 THEN <<SubSeq(d, i, e)>> \o AmountFindall(d, e + 1)
             ELSE AmountFindall(d, i + 1)

\* s.replace(old, "")
RECURSIVE Remove(_, _)
Remove(s, old) ==
    IF old = <<>> \/ Len(s) < Len(old) THEN s
    ELSE IF SubSeq(s, 1, Len(old)) = old
         THEN Remove(SubSeq(s, Len(old) + 1, Len(s)), old)
         ELSE <<Head(s)>> \o Remove(Tail(s), old)

(***************************************************************************)
(* pdf_extractor.py: parse_date.  datetime.strptime is modelled by the     *)
(* texts its directives accept: %d is 1..31 and %m is 1..12 in one or two  *)
(* digits, %Y is four digits, %y is two digits with the pivot at 69, %B    *)
(* and %b are the English month names in any case, a blank of the format   *)
(* matches a run of blanks, and the whole text must be consumed.           *)
(***************************************************************************)

\* int(s) of a text of decimal digits
RECURSIVE ToNumber(_)
ToNumber(s) ==
    IF s = <<>> THEN 0
    ELSE ToNumber(SubSeq(s, 1, Len(s) - 1)) * 10 + DigitValue[s[Len(s)]]

\* str(n) of a natural number
RECURSIVE NumberText(_)
NumberText(n) ==
    LET last == CHOOSE c \in Digits : DigitValue[c] = n % 10
    IN  IF n < 10 THEN <<last>> ELSE NumberText(n \div 10) \o <<last>>

\* the directives %m and %d of strftime
Pad2(n) == IF n < 10 THEN <<"0">> \o NumberText(n) ELSE NumberText(n)

DaysInMonth(year, month) ==
    IF month = 2
    THEN IF year % 4 = 0 /\ (year % 100 # 0 \/ year % 400 = 0) THEN 29 ELSE 28
    ELSE IF month \in {4, 6, 9, 11} THEN 30 ELSE 31

\* datetime(year, month, day).strftime("%Y-%m-%d"), None where datetime
\* raises ValueError; the C library prints %Y without padding
IsoDate(year, month, day) ==
    IF year \in 1..9999 /\ month \in 1..12 /\ day \in 1..DaysInMonth(year, month)
    THEN NumberText(year) \o <<"-">> \o Pad2(month) \o <<"-">> \o Pad2(day)
    ELSE NoneStr

\* the formats %d.%m.%Y, %d.%m.%y and the same with / and -
NumericDate(text) ==
    LET a == RunLength(text, 1, Digits)
        b == RunLength(text, a + 2, Digits)
        c == RunLength(text, a + b + 3, Digits)
    IN  IF /\ a \in 1..2 /\ b \in 1..2 /\ c \in {2, 4}
           /\ Len(text) = a + b + c + 2
           /\ text[a + 1] \in {".", "/", "-"}
           /\ text[a + b + 2] = text[a + 1]
        THEN LET day == ToNumber(SubSeq(text, 1, a))
                 month == ToNumber(SubSeq(text, a + 2, a + b + 1))
                 y == ToNumber(SubSeq(text, a + b + 3, Len(text)))
                 year == IF c = 4 THEN y ELSE IF y <= 68 THEN 2000 + y ELSE 1900 + y
             IN  IF day \in 1..31 /\ month \in 1..12
                 THEN IsoDate(year, month, day) ELSE NoneStr
        ELSE NoneStr

\* the month names of %B in the C locale; %b is their first three letters
MONTHS_EN ==
    <<
    <<"j", "a", "n", "u", "a", "r", "y">>,
    <<"f", "e", "b", "r", "u", "a", "r", "y">>,
    <<"m", "a", "r", "c", "h">>,
    <<"a", "p", "r", "i", "l">>,
    <<"m", "a", "y">>,
    <<"j", "u", "n", "e">>,
    <<"j", "u", "l", "y">>,
    <<"a", "u", "g", "u", "s", "t">>,
    <<"s", "e", "p", "t", "e", "m", "b", "e", "r">>,
    <<"o", "c", "t", "o", "b", "e", "r">>,
    <<"n", "o", "v", "e", "m", "b", "e", "r">>,
    <<"d", "e", "c", "e", "m", "b", "e", "r">>
    >>

months_tr ==
    <<
    <<"o", "c", "a", "k">>,
    <<"s-cedilla", "u", "b", "a", "t">>,
    <<"m", "a", "r", "t">>,
    <<"n", "i", "s", "a", "n">>,
    <<"m", "a", "y", "dotless-i", "s">>,
    <<"h", "a", "z", "i", "r", "a", "n">>,
    <<"t", "e", "m", "m", "u", "z">>,
    <<"a", "g-breve", "u", "s", "t", "o", "s">>,
    <<"e", "y", "l", "u-umlaut", "l">>,
    <<"e", "k", "i", "m">>,
    <<"k", "a", "s", "dotless-i", "m">>,
    <<"a", "r", "a", "l", "dotless-i", "k">>
    >>

\* the index of a name in a list of month names, 0 when it is not there
MonthIndex(names, name) ==
    IF \E i \in 1..12 : names[i] = name
    THEN CHOOSE i \in 1..12 : names[i] = name
    ELSE 0

\* the formats "%d %B %Y" and "%d %b %Y"
EnglishDate(text) ==
    LET a == RunLength(text, 1, Digits)
        s1 == RunLength(text, a + 1, {" "})
        l == RunLength(text, a + s1 + 1, Letters)
        s2 == RunLength(text, a + s1 + l + 1, {" "})
        c == RunLength(text, a + s1 + l + s2 + 1, Digits)
    IN  IF /\ a \in 1..2 /\ s1 >= 1 /\ l >= 1 /\ s2 >= 1 /\ c = 4
           /\ Len(text) = a + s1 + l + s2 + c
        THEN LET day == ToNumber(SubSeq(text, 1, a))
                 name == Lower(SubSeq(text, a + s1 + 1, a + s1 + l))
                 short == [i \in 1..12 |-> SubSeq(MONTHS_EN[i], 1, 3)]
                 month == IF MonthIndex(MONTHS_EN, name) # 0
                          THEN MonthIndex(MONTHS_EN, name)
                          ELSE MonthIndex(short, name)
                 year == ToNumber(SubSeq(text, a + s1 + l + s2 + 1, Len(text)))
             IN  IF day \in 1..31 /\ month # 0
                 THEN IsoDate(year, month, day) ELSE NoneStr
        ELSE NoneStr

\* lines 149-165: the manual Turkish month handling; re.match leaves what
\* follows the year unread
TurkishDate(text) ==
    LET a == RunLength(text, 1, Digits)
        s1 == RunLength(text, a + 1, {" "})
        l == RunLength(text, a + s1 + 1, Letters)
        s2 == RunLength(text, a + s1 + l + 1, {" "})
        c == RunLength(text, a + s1 + l + s2 + 1, Digits)
    IN  IF a \in 1..2 /\ s1 >= 1 /\ l >= 1 /\ s2 >= 1 /\ c >= 2
        THEN LET day == ToNumber(SubSeq(text, 1, a))
                 month_name == Lower(SubSeq(text, a + s1 + 1, a + s1 + l))
                 from == a + s1 + l + s2 + 1
                 y == ToNumber(SubSeq(text, from, from + (IF c > 4 THEN 4 ELSE c) - 1))
                 year == IF y < 100 THEN y + 2000 ELSE y
                 month == MonthIndex(months_tr, month_name)
             IN  IF month # 0 THEN IsoDate(year, month, day) ELSE NoneStr
        ELSE NoneStr

parse_date(date_str) ==
    IF date_str = <<>> THEN NoneStr
    ELSE LET text == Strip(date_str)
         IN  IF NumericDate(text) # NoneStr THEN NumericDate(text)
             ELSE IF EnglishDate(text) # NoneStr THEN EnglishDate(text)
             ELSE TurkishDate(text)

(***************************************************************************)
(* pdf_extractor.py: clean_amount_to_float, the amount format and          *)
(* categorize_transaction                                                  *)
(***************************************************************************)

\* the return value None of clean_amount_to_float
NoneFloat == [none |-> TRUE]

\* the characters of s that belong to S, in order
Keep(s, S) == SelectSeq(s, LAMBDA c : c \in S)

\* s.rfind(c), 0 when c is not in s
LastIndex(s, c) ==
    LET at == {i \in 1..Len(s) : s[i] = c}
    IN  IF at = {} THEN 0 ELSE CHOOSE i \in at : \A j \in at : j <= i

\* a conversion that takes the dot for the decimal separator of every amount
CleanDotDecimal(amount_str) ==
    IF amount_str = <<>> THEN NoneFloat
    ELSE LET stripped == Strip(amount_str)
             negative ==
                 \/ Contains(<<"(">>, stripped) /\ Contains(<<")">>, stripped)
                 \/ stripped # <<>> /\ stripped[1] \in {"-", "minus-sign"}
             s == Keep(stripped, Digits \cup {",", ".", "-"})
             last_dot == LastIndex(s, ".")
             last_comma == LastIndex(s, ",")
             dec_sep == "."
             \* thousands separators and signs removed: what float() is given
             s_clean == Keep(s, Digits \cup {dec_sep})
             point == LastIndex(s_clean, dec_sep)
             digits == Keep(s_clean, Digits)
         IN  IF s = <<>> THEN NoneFloat
             ELSE IF digits = <<>> \/ Len(s_clean) - Len(digits) > 1 THEN NoneFloat
             ELSE Float(negative, ToNumber(digits),
                        IF point = 0 THEN 0 ELSE Len(s_clean) - point)

clean_amount_to_float(amount_str) ==
    IF amount_str = <<>> THEN NoneFloat
    ELSE LET stripped == Strip(amount_str)
             negative ==
                 \/ Contains(<<"(">>, stripped) /\ Contains(<<")">>, stripped)
                 \/ stripped # <<>> /\ stripped[1] \in {"-", "minus-sign"}
             s == Keep(stripped, Digits \cup {",", ".", "-"})
             last_dot == LastIndex(s, ".")
             last_comma == LastIndex(s, ",")
             dec_sep == IF last_dot > last_comma THEN "." ELSE ","
             \* thousands separators and signs removed: what float() is given
             s_clean == Keep(s, Digits \cup {dec_sep})
             point == LastIndex(s_clean, dec_sep)
             digits == Keep(s_clean, Digits)
         IN  IF s = <<>> THEN NoneFloat
             ELSE IF digits = <<>> \/ Len(s_clean) - Len(digits) > 1 THEN NoneFloat
             ELSE Float(negative, ToNumber(digits),
                        IF point = 0 THEN 0 ELSE Len(s_clean) - point)

\* f"{v:.2f}" of a number with at most two decimals, as the amounts matched
\* by AMOUNT_PATTERN are
FormatFixed2(v) ==
    CASE v.scale <= 2 ->
        LET cents == IF v.scale = 0 THEN v.digits * 100
                     ELSE IF v.scale = 1 THEN v.digits * 10
                     ELSE v.digits
        IN  (IF v.neg THEN <<"-">> ELSE <<>>)
            \o NumberText(cents \div 100) \o <<".">> \o Pad2(cents % 100)

CATEGORY_KEYWORDS ==
    <<
    [category |-> "Groceries", keywords |->
        {<<"g", "r", "o", "c", "e", "r", "y">>,
         <<"s", "u", "p", "e", "r", "m", "a", "r", "k", "e", "t">>,
         <<"m", "i", "g", "r", "o", "s">>,
         <<"c", "a", "r", "r", "e", "f", "o", "u", "r">>,
         <<"b", "i", "m">>,
         <<"s-cedilla", "o", "k">>,
         <<"m", "a", "r", "k", "e", "t">>,
         <<"g", "dotless-i", "d", "a">>,
         <<"a", "1", "0", "1">>}],
    [category |-> "Dining", keywords |->
        {<<"r", "e", "s", "t", "a", "u", "r", "a", "n", "t">>,
         <<"r", "e", "s", "t", "o", "r", "a", "n">>,
         <<"c", "a", "f", "e">>,
         <<"k", "a", "f", "e">>,
         <<"c", "o", "f", "f", "e", "e">>,
         <<"k", "a", "h", "v", "e">>,
         <<"s", "t", "a", "r", "b", "u", "c", "k", "s">>,
         <<"b", "u", "r", "g", "e", "r">>,
         <<"p", "i", "z", "z", "a">>,
         <<"d", "o-umlaut", "n", "e", "r">>}],
    [category |-> "Transportation", keywords |->
        {<<"u", "b", "e", "r">>,
         <<"t", "a", "k", "s", "i">>,
         <<"t", "a", "x", "i">>,
         <<"m", "e", "t", "r", "o">>,
         <<"o", "t", "o", "b", "u-umlaut", "s">>,
         <<"b", "u", "s">>,
         <<"t", "r", "a", "m">>,
         <<"f", "u", "e", "l">>,
         <<"b", "e", "n", "z", "i", "n">>,
         <<"a", "k", "a", "r", "y", "a", "k", "dotless-i", "t">>,
         <<"o", "t", "o", "p", "a", "r", "k">>,
         <<"p", "a", "r", "k", "i", "n", "g">>}],
    [category |-> "Housing", keywords |->
        {<<"r", "e", "n", "t">>,
         <<"k", "i", "r", "a">>,
         <<"m", "o", "r", "t", "g", "a", "g", "e">>,
         <<"e", "v", " ", "k", "r", "e", "d", "i", "s", "i">>,
         <<"a", "p", "a", "r", "t", "m", "e", "n", "t">>,
         <<"s", "i", "t", "e", " ", "a", "i", "d", "a", "t", "dotless-i">>}],
    [category |-> "Utilities", keywords |->
        {<<"f", "a", "t", "u", "r", "a">>,
         <<"b", "i", "l", "l">>,
         <<"e", "l", "e", "c", "t", "r", "i", "c">>,
         <<"e", "l", "e", "k", "t", "r", "i", "k">>,
         <<"w", "a", "t", "e", "r">>,
         <<"s", "u">>,
         <<"d", "o", "g-breve", "a", "l", "g", "a", "z">>,
         <<"n", "a", "t", "u", "r", "a", "l", " ", "g", "a", "s">>,
         <<"i", "n", "t", "e", "r", "n", "e", "t">>,
         <<"t", "e", "l", "e", "f", "o", "n">>,
         <<"g", "s", "m">>}],
    [category |-> "Entertainment", keywords |->
        {<<"n", "e", "t", "f", "l", "i", "x">>,
         <<"s", "p", "o", "t", "i", "f", "y">>,
         <<"d", "i", "s", "n", "e", "y">>,
         <<"a", "p", "p", "l", "e", " ", "m", "u", "s", "i", "c">>,
         <<"s", "i", "n", "e", "m", "a">>,
         <<"t", "i", "y", "a", "t", "r", "o">>,
         <<"c", "o", "n", "c", "e", "r", "t">>,
         <<"k", "o", "n", "s", "e", "r">>,
         <<"b", "i", "l", "e", "t">>}],
    [category |-> "Shopping", keywords |->
        {<<"h", "e", "p", "s", "i", "b", "u", "r", "a", "d", "a">>,
         <<"t", "r", "e", "n", "d", "y", "o", "l">>,
         <<"a", "m", "a", "z", "o", "n">>,
         <<"n", "1", "1">>,
         <<"b", "o", "y", "n", "e", "r">>,
         <<"s", "h", "o", "p", "p", "i", "n", "g">>,
         <<"a", "l", "dotless-i", "s-cedilla", "v", "e", "r", "i", "s-cedilla">>,
         <<"m", "a", "g-breve", "a", "z", "a">>}],
    [category |-> "Travel", keywords |->
        {<<"o", "t", "e", "l">>,
         <<"h", "o", "t", "e", "l">>,
         <<"u", "c-cedilla", "u", "s-cedilla">>,
         <<"f", "l", "i", "g", "h", "t">>,
         <<"a", "i", "r", "l", "i", "n", "e">>,
         <<"a", "i", "r", "b", "n", "b">>,
         <<"b", "o", "o", "k", "i", "n", "g">>,
         <<"t", "a", "t", "i", "l">>,
         <<"s", "e", "y", "a", "h", "a", "t">>}],
    [category |-> "Health", keywords |->
        {<<"e", "c", "z", "a", "n", "e">>,
         <<"p", "h", "a", "r", "m", "a", "c", "y">>,
         <<"h", "o", "s", "p", "i", "t", "a", "l">>,
         <<"h", "a", "s", "t", "a", "n", "e">>,
         <<"d", "o", "k", "t", "o", "r">>,
         <<"m", "e", "d", "i", "c", "a", "l">>,
         <<"c", "l", "i", "n", "i", "c">>,
         <<"d", "e", "n", "t", "i", "s", "t">>,
         <<"d", "i", "s-cedilla">>}],
    [category |-> "Income", keywords |->
        {<<"s", "a", "l", "a", "r", "y">>,
         <<"m", "a", "a", "s-cedilla">>,
         <<"p", "a", "y", "r", "o", "l", "l">>,
         <<"d", "e", "p", "o", "s", "i", "t">>,
         <<"f", "a", "i", "z">>,
         <<"i", "n", "t", "e", "r", "e", "s", "t">>,
         <<"b", "o", "n", "u", "s">>,
         <<"i", "n", "c", "o", "m", "i", "n", "g">>,
         <<"y", "a", "t", "a", "n">>}],
    [category |-> "Transfer", keywords |->
        {<<"t", "r", "a", "n", "s", "f", "e", "r">>,
         <<"v", "i", "r", "m", "a", "n">>,
         <<"h", "a", "v", "a", "l", "e">>,
         <<"e", "f", "t">>}]
    >>

categorize_transaction(desc, type) ==
    LET d == DescLower(desc)
        hits == {i \in 1..Len(CATEGORY_KEYWORDS) :
                    \E k \in CATEGORY_KEYWORDS[i].keywords : Contains(k, d)}
    IN  IF hits # {}
        THEN CATEGORY_KEYWORDS[CHOOSE i \in hits : \A j \in hits : i <= j].category
        ELSE IF type = "Income" THEN "Income"
        ELSE IF type = "Transfer" THEN "Transfer"
        ELSE "Other"

(***************************************************************************)
(* pdf_extractor.py: from a line of text or a table row to a transaction   *)
(***************************************************************************)
DEFAULT_CURRENCY == "TRY"

\* the confidence of a record read from a table row and from a text line
TableConfidence == 80
LineConfidence == 60

\* the first amount of the line taken as the amount of the record
FirstAmount(amount_matches) == amount_matches[1]

\* amount_matches[-1]: the last number in the line is taken as the amount
LastAmount(amount_matches) == amount_matches[Len(amount_matches)]

\* lines 283-306 and 361-382: the record of a parsed date, a cleaned amount
\* and a description; no record when the date or the amount is None
Record(iso_date, amount, desc, currency, confidence) ==
    IF iso_date = NoneStr \/ amount = NoneFloat THEN <<>>
    ELSE <<[date |-> iso_date,
            description |-> desc,
            amount |-> FormatFixed2(amount),
            currency |-> currency,
            confidence |-> confidence,
            transaction_type |-> detect_transaction_type(desc, amount),
            category |->
                categorize_transaction(desc, detect_transaction_type(desc, amount))]>>

\* lines 278-293 and 356-369: no record without a date match and an amount
\* match; the description is the text without the date and the amount
FromMatches(text, raw_date, amount_matches, currency, confidence) ==
    IF raw_date = NoneStr \/ amount_matches = <<>> THEN <<>>
    ELSE Record(parse_date(raw_date),
                clean_amount_to_float(LastAmount(amount_matches)),
                Strip(Remove(Remove(text, raw_date), LastAmount(amount_matches))),
                currency, confidence)

\* lines 275-306 and 354-382, the same steps for a line and for a row
TransactionOf(text, currency, confidence) ==
    FromMatches(text, DateSearch(text), AmountFindall(text, 1), currency, confidence)

\* extract_from_text_lines, given text.splitlines()
RECURSIVE extract_from_text_lines(_)
extract_from_text_lines(lines) ==
    IF lines = <<>> THEN <<>>
    ELSE LET line == Strip(Head(lines))
         IN  (IF line = <<>> THEN <<>>
              ELSE TransactionOf(line, DEFAULT_CURRENCY, LineConfidence))
             \o extract_from_text_lines(Tail(lines))

\* line 349-350: " ".join(cell or "" for cell in row).strip()
RowText(row) ==
    Strip(JoinWords([i \in 1..Len(row) |->
                        IF row[i] = NoneStr THEN <<>> ELSE row[i]]))

\* lines 346-382: the records of the rows of a table
RECURSIVE TableRecords(_, _)
TableRecords(table, currency) ==
    IF table = <<>> THEN <<>>
    ELSE (IF Head(table) = <<>> \/ RowText(Head(table)) = <<>> THEN <<>>
          ELSE TransactionOf(RowText(Head(table)), currency, TableConfidence))
         \o TableRecords(Tail(table), currency)

\* lines 342-345: the records of the tables of a page
RECURSIVE TablesRecords(_, _)
TablesRecords(tables, currency) ==
    IF tables = <<>> THEN <<>>
    ELSE TableRecords(Head(tables), currency)
         \o TablesRecords(Tail(tables), currency)

\* lines 390-391 and 406-407: tx["currency"] = currency
WithCurrency(records, currency) ==
    [i \in 1..Len(records) |-> [records[i] EXCEPT !.currency = currency]]

\* lines 339-393: the records of a page, from its tables or else its text
PageResults(page, currency) ==
    LET page_results == TablesRecords(page.tables, currency)
    IN  IF page_results # <<>> THEN page_results
        ELSE WithCurrency(extract_from_text_lines(page.text), currency)

\* lines 398-410: the records of the text pytesseract reads off each page
RECURSIVE OcrResults(_, _)
OcrResults(pages, currency) ==
    IF pages = <<>> THEN <<>>
    ELSE WithCurrency(extract_from_text_lines(Head(pages).image), currency)
         \o OcrResults(Tail(pages), currency)

\* lines 330-332
Currency(md) ==
    IF "currency" \in DOMAIN md THEN md.currency ELSE DEFAULT_CURRENCY

(***************************************************************************)
(* Calls pdf_extractor.extract_transactions(pdf_path, metadata)            *)
(*                                                                         *)
(* A page is what the libraries report of it: the tables of                *)
(* page.extract_tables() (a table is a list of rows, a row a list of cells,*)
(* a cell a text or None), the lines of page.extract_text(), and the lines *)
(* pytesseract reads off its image.  Whether a library call raises is      *)
(* chosen where the call is made; mfault records the call that raised.     *)
(* results is left as it was when an exception is handled, so that it      *)
(* tells what had been obtained; ocr_ran tells whether the block of lines  *)
(* 396-410 was entered.                                                    *)
(***************************************************************************)
MaxPages == 2

\* the pages documents are made of
PagePool ==
    {
    \* a statement table: a header row, then a row with a running balance
    \* after the amount
    [tables |->
          <<<<<<<<"T", "a", "r", "i", "h">>,
              <<"A", "c-cedilla", "dotless-i", "k", "l", "a", "m", "a">>,
              <<"T", "u", "t", "a", "r">>,
              <<"B", "a", "k", "i", "y", "e">>>>,
            <<<<"0", "1", ".", "0", "3", ".", "2", "0", "2", "4">>,
              <<"M", "i", "g", "r", "o", "s", " ", "M", "a", "r", "k", "e", "t">>,
              <<"-", "1", "2", "5", ",", "5", "0">>,
              <<"1", ".", "2", "3", "4", ",", "5", "6">>>>>>>>,
     text |->
          <<<<"T", "a", "r", "i", "h", " ", "A", "c-cedilla", "dotless-i", "k", "l", "a", "m", "a", " ", "T", "u", "t", "a", "r", " ", "B", "a", "k", "i", "y", "e">>,
           <<"0", "1", ".", "0", "3", ".", "2", "0", "2", "4", " ", "M", "i", "g", "r", "o", "s", " ", "M", "a", "r", "k", "e", "t", " ", "-", "1", "2", "5", ",", "5", "0", " ", "1", ".", "2", "3", "4", ",", "5", "6">>>>,
     image |->
          <<<<"T", "a", "r", "i", "h", " ", "A", "c-cedilla", "dotless-i", "k", "l", "a", "m", "a", " ", "T", "u", "t", "a", "r", " ", "B", "a", "k", "i", "y", "e">>,
           <<"0", "1", ".", "0", "3", ".", "2", "0", "2", "4", " ", "M", "i", "g", "r", "o", "s", " ", "M", "a", "r", "k", "e", "t", " ", "-", "1", "2", "5", ",", "5", "0", " ", "1", ".", "2", "3", "4", ",", "5", "6">>>>],
    \* a table of one row, which holds a date and an amount (one cell is
    \* empty)
    [tables |->
          <<<<<<<<"1", "5", ".", "0", "1", ".", "2", "0", "2", "4">>,
              NoneStr,
              <<"S", "a", "l", "a", "r", "y">>,
              <<"1", "2", "0", "0", ",", "0", "0">>>>>>>>,
     text |->
          <<<<"1", "5", ".", "0", "1", ".", "2", "0", "2", "4", " ", "S", "a", "l", "a", "r", "y", " ", "1", "2", "0", "0", ",", "0", "0">>>>,
     image |->
          <<<<"1", "5", ".", "0", "1", ".", "2", "0", "2", "4", " ", "S", "a", "l", "a", "r", "y", " ", "1", "2", "0", "0", ",", "0", "0">>>>],
    \* a page without tables: a line with a balance column, a line with a
    \* points column
    [tables |->
          <<>>,
     text |->
          <<<<"0", "3", "/", "0", "2", "/", "2", "0", "2", "4", " ", "S", "t", "a", "r", "b", "u", "c", "k", "s", " ", "C", "o", "f", "f", "e", "e", " ", "5", ".", "0", "0", " ", "9", "9", "4", ".", "0", "0">>,
           <<"4", " ", "S-cedilla", "u", "b", "a", "t", " ", "2", "0", "2", "4", " ", "U", "b", "e", "r", " ", "4", "5", ",", "9", "0", " ", "1", "2">>>>,
     image |->
          <<<<"0", "3", "/", "0", "2", "/", "2", "0", "2", "4", " ", "S", "t", "a", "r", "b", "u", "c", "k", "s", " ", "C", "o", "f", "f", "e", "e", " ", "5", ".", "0", "0", " ", "9", "9", "4", ".", "0", "0">>,
           <<"4", " ", "S-cedilla", "u", "b", "a", "t", " ", "2", "0", "2", "4", " ", "U", "b", "e", "r", " ", "4", "5", ",", "9", "0", " ", "1", "2">>>>],
    \* a scanned page: no tables and no text; pytesseract reads one line
    [tables |->
          <<>>,
     text |->
          <<>>,
     image |->
          <<<<"1", " ", "M", "a", "r", "t", " ", "2", "0", "2", "4", " ", "N", "e", "t", "f", "l", "i", "x", " ", "4", "5", ",", "9", "0", " ", "2", "5", "0", ",", "0", "0">>>>],
    \* a page without tables: a card purchase, and a line that holds a date
    \* and an amount and nothing else
    [tables |->
          <<>>,
     text |->
          <<<<"0", "5", "/", "0", "3", "/", "2", "0", "2", "4", " ", "S", "T", "A", "R", "B", "U", "C", "K", "S", " ", "4", "5", ",", "5", "0">>,
           <<"0", "6", ".", "0", "3", ".", "2", "0", "2", "4", " ", "1", "2", "5", ",", "5", "0">>>>,
     image |->
          <<<<"0", "5", "/", "0", "3", "/", "2", "0", "2", "4", " ", "S", "T", "A", "R", "B", "U", "C", "K", "S", " ", "4", "5", ",", "5", "0">>,
           <<"0", "6", ".", "0", "3", ".", "2", "0", "2", "4", " ", "1", "2", "5", ",", "5", "0">>>>]
    }

ModuleInit ==
    /\ pdf \in SeqsUpTo(PagePool, MaxPages) \ {<<>>}
    \* metadata is None or a dictionary; <<>> stands for both None and {}
    /\ metadata \in {<<>>, [currency |-> "USD"]}
    /\ page_idx = 0
    /\ results = <<>>
    /\ ocr_ran = FALSE
    /\ returned = <<>>
    /\ mfault = "none"
    /\ mpc = "open"
    /\ CatIdle
    /\ DedupIdle
    /\ ServiceIdle
    /\ TypeIdle
    /\ HelperIdle
    /\ BucketIdle

\* lines 415-417: any exception of the try block ends the call with []
ModuleExcept(e) ==
    /\ mfault' = e
    /\ returned' = <<>>
    /\ mpc' = "done"

\* line 335
OpenPdfPlumber ==
    /\ mpc = "open"
    /\ \/ ModuleExcept("open")
       \/ /\ mpc' = "pages"
          /\ UNCHANGED <<mfault, returned>>
    /\ UNCHANGED <<pdf, metadata, page_idx, results, ocr_ran>>
    /\ UNCHANGED <<catVars, dedupVars, serviceVars, typeVars, helperVars, bucketVars>>

\* lines 336-393: one turn of the loop over the pages
ProcessPage ==
    /\ mpc = "pages"
    /\ page_idx < Len(pdf)
    /\ \/ ModuleExcept("page") /\ UNCHANGED <<page_idx, results>>
       \/ /\ page_idx' = page_idx + 1
          /\ results' = results \o PageResults(pdf[page_idx + 1], Currency(metadata))
          /\ UNCHANGED <<mfault, returned, mpc>>
    /\ UNCHANGED <<pdf, metadata, ocr_ran>>
    /\ UNCHANGED <<catVars, dedupVars, serviceVars, typeVars, helperVars, bucketVars>>

\* OCR on the whole document whatever the pages have given
OcrAfterEveryDocument ==
    /\ mpc = "pages"
    /\ page_idx = Len(pdf)
    /\ ocr_ran' = TRUE
    /\ \/ ModuleExcept("ocr") /\ UNCHANGED results
       \/ /\ results' = OcrResults(pdf, Currency(metadata))
          /\ returned' = results'
          /\ mpc' = "done"
          /\ UNCHANGED mfault
    /\ UNCHANGED <<pdf, metadata, page_idx>>
    /\ UNCHANGED <<catVars, dedupVars, serviceVars, typeVars, helperVars, bucketVars>>

\* lines 396-413: no record from any page, OCR on the whole document
OcrFallback ==
    /\ mpc = "pages"
    /\ page_idx = Len(pdf)
    /\ results = <<>>
    /\ ocr_ran' = TRUE
    /\ \/ ModuleExcept("ocr") /\ UNCHANGED results
       \/ /\ results' = OcrResults(pdf, Currency(metadata))
          /\ returned' = results'
          /\ mpc' = "done"
          /\ UNCHANGED mfault
    /\ UNCHANGED <<pdf, metadata, page_idx>>
    /\ UNCHANGED <<catVars, dedupVars, serviceVars, typeVars, helperVars, bucketVars>>

\* lines 396, 412-413: records found, returned as they are
ReturnResults ==
    /\ mpc = "pages"
    /\ page_idx = Len(pdf)
    /\ results # <<>>
    /\ returned' = results
    /\ mpc' = "done"
    /\ UNCHANGED <<pdf, metadata, page_idx, results, ocr_ran, mfault>>
    /\ UNCHANGED <<catVars, dedupVars, serviceVars, typeVars, helperVars, bucketVars>>

ModuleNext ==
    \/ OpenPdfPlumber
    \/ ProcessPage
    \/ OcrFallback
    \/ ReturnResults

ModuleSpec == ModuleInit /\ [][ModuleNext]_vars

(***************************************************************************)
(* Both extraction entry points: a run calls one of them                   *)
(***************************************************************************)
ExtractSpec == (ServiceInit \/ ModuleInit) /\ [][ServiceNext \/ ModuleNext]_vars

(***************************************************************************)
(* Vocabulary of the properties of extract_transactions                    *)
(***************************************************************************)

\* the texts the document offers to the extraction: the rows of its tables,
\* the lines of its text and the lines read off its images
SourceTexts ==
    UNION {UNION {{RowText(pdf[p].tables[t][r]) : r \in 1..Len(pdf[p].tables[t])} :
                     t \in 1..Len(pdf[p].tables)}
           \cup {Strip(pdf[p].text[i]) : i \in 1..Len(pdf[p].text)}
           \cup {Strip(pdf[p].image[i]) : i \in 1..Len(pdf[p].image)} :
           p \in 1..Len(pdf)}

\* the amount tokens that follow the date of a text: the primary amount
\* first, then the further numeric columns
AmountsAfterDate(s) == AmountFindall(Remove(s, DateSearch(s)), 1)

\* the shape date, description, amount, further numeric columns
HasTrailingColumns(s) ==
    /\ DateSearch(s) # NoneStr
    /\ Len(AmountsAfterDate(s)) >= 2

\* the record r was read from the text s
ReadFrom(r, s) ==
    /\ r.date = parse_date(DateSearch(s))
    /\ Contains(r.description, s)

\* an amount token as a record states it
AmountText(token) == FormatFixed2(clean_amount_to_float(token))

(***************************************************************************)
(* C13: a failure in one tier never aborts the cascade: when a call raises *)
(* while some page or strategy is processed, the rows already obtained     *)
(* from other pages or tiers are still returned, by extract_transactions   *)
(* and by extract_transactions_from_pdf.                                   *)
(***************************************************************************)
C13_FailureNeverAborts ==
    /\ mpc = "done" =>
          \A i \in 1..Len(results) :
              \E k \in 1..Len(returned) : returned[k] = results[i]
    /\ spc = "done" => AllRepresented(all_transactions, Returned_rows)

(***************************************************************************)
(* C14: whole-document failure.  Whatever call raises out of the try block *)
(* of extract_transactions_from_pdf (opening, the text strategy, the       *)
(* pattern strategy, the scan test), the function returns a dictionary     *)
(* with all its keys, an empty transaction list and extraction_method      *)
(* 'failed'; whatever call raises in extract_transactions, it returns the  *)
(* empty list.  Neither function lets the exception out.                   *)
(***************************************************************************)
C14_WholeDocumentFailure ==
    /\ fault \in {"open", "text", "pattern", "scan"} =>
          /\ spc = "done"
          /\ {"transactions", "extraction_method", "document_type", "quality",
              "page_count"} \subseteq DOMAIN extraction_result
          /\ extraction_result.transactions = <<>>
          /\ extraction_result.extraction_method = "failed"
    /\ mfault # "none" =>
          /\ mpc = "done"
          /\ returned = <<>>

C14_Witness ==
    /\ spc = "done"
    /\ fault = "pattern"
    /\ text_transactions # <<>>
    /\ extraction_result.transactions = <<>>
    /\ extraction_result.extraction_method = "failed"

(***************************************************************************)
(* C18: the first row of a table is a header and never becomes a record,   *)
(* so a table with fewer than 2 rows contributes no record, even when its  *)
(* only row holds a date and an amount.                                    *)
(***************************************************************************)
C18_FirstRowIsHeader ==
    (mpc = "done" /\ mfault = "none") =>
        \A p \in 1..Len(pdf) : \A t \in 1..Len(pdf[p].tables) :
            LET first == TableRecords(<<pdf[p].tables[t][1]>>, Currency(metadata))
            IN  \A k \in 1..Len(returned) : \A j \in 1..Len(first) :
                    returned[k] # first[j]

TypeRecordSpec == (TypeInit \/ ModuleInit) /\ [][TypeNext \/ ModuleNext]_vars

\* the description names no keyword of any of the three lists
NoKeyword(d) ==
    /\ ~AnyKeyword(TRANSFER_KEYWORDS, d)
    /\ ~AnyKeyword(EXPENSE_KEYWORDS, d)
    /\ ~AnyKeyword(INCOME_KEYWORDS, d)

IsZero(v) == v.digits = 0

(***************************************************************************)
(* C21: the type of every emitted record and every value returned by       *)
(* detect_transaction_type is income or expense, whatever the letter case; *)
(* there is no third value, not for a transfer description and not for an  *)
(* amount of zero.                                                         *)
(***************************************************************************)
C21_TwoTypes ==
    /\ tpc = "done" => transaction_type \in {"Income", "Expense", "income", "expense"}
    /\ \A i \in 1..Len(returned) :
           returned[i].transaction_type \in {"Income", "Expense", "income", "expense"}

(***************************************************************************)
(* C21 as the code has it: the type is one of the three values Expense,    *)
(* Income and Transfer; a description with a transfer keyword is a         *)
(* Transfer whatever the amount, and so is an amount of zero under a       *)
(* description with no keyword; every emitted record carries one of the    *)
(* three values.                                                           *)
(***************************************************************************)
C21_ThreeTypes ==
    /\ tpc = "done" =>
           /\ transaction_type \in {"Expense", "Income", "Transfer"}
           /\ AnyKeyword(TRANSFER_KEYWORDS, DescLower(type_description))
                  => transaction_type = "Transfer"
           /\ (NoKeyword(DescLower(type_description)) /\ IsZero(amount_value))
                  => transaction_type = "Transfer"
    /\ \A i \in 1..Len(returned) :
           returned[i].transaction_type \in {"Expense", "Income", "Transfer"}

\* a zero amount under a description without keywords has been classified
C21_Witness ==
    /\ tpc = "done"
    /\ type_description # NoneStr
    /\ type_description # <<>>
    /\ NoKeyword(DescLower(type_description))
    /\ IsZero(amount_value)
    /\ transaction_type = "Transfer"

(***************************************************************************)
(* Vocabulary of the properties of the records of a document               *)
(***************************************************************************)
\* the line '05/03/2024 STARBUCKS 45,50'
StarbucksLine ==
    <<"0", "5", "/", "0", "3", "/", "2", "0", "2", "4", " ",
      "S", "T", "A", "R", "B", "U", "C", "K", "S", " ", "4", "5", ",", "5", "0">>

\* the document is one page without tables whose text holds the line, read
\* with the default currency and without a failure
ReadStarbucksLine ==
    /\ mpc = "done"
    /\ mfault = "none"
    /\ ~ocr_ran
    /\ metadata = <<>>
    /\ Len(pdf) = 1
    /\ pdf[1].tables = <<>>
    /\ \E i \in 1..Len(pdf[1].text) : pdf[1].text[i] = StarbucksLine

\* the records of 5 March 2024
OfFifthOfMarch ==
    {i \in 1..Len(returned) :
        returned[i].date = <<"2", "0", "2", "4", "-", "0", "3", "-", "0", "5">>}

(***************************************************************************)
(* C22: the text line '05/03/2024 STARBUCKS 45,50', read with the default  *)
(* currency, yields exactly one record: date 2024-03-05, description       *)
(* 'STARBUCKS', amount 45.50, currency TRY, type expense (in either letter *)
(* case) and the category the categorization engine gives the description, *)
(* Food & Groceries / Coffee/Tea.                                          *)
(***************************************************************************)
C22_EndToEnd ==
    ReadStarbucksLine =>
        /\ Cardinality(OfFifthOfMarch) = 1
        /\ \A i \in OfFifthOfMarch :
               /\ returned[i].description = <<"S", "T", "A", "R", "B", "U", "C", "K", "S">>
               /\ returned[i].amount = <<"4", "5", ".", "5", "0">>
               /\ returned[i].currency = "TRY"
               /\ returned[i].transaction_type \in {"expense", "Expense"}
               /\ categorize(returned[i].description, "expense", <<>>).category_main
                      = "Food & Groceries"
               /\ categorize(returned[i].description, "expense", <<>>).category_sub
                      = "Coffee/Tea"
               /\ returned[i].category
                      = categorize(returned[i].description, "expense", <<>>).category_main

(***************************************************************************)
(* C26: every record returned by extract_transactions, from a table row    *)
(* or a line of text, has a date that is not empty and a description that  *)
(* is not empty, also when the line holds a date and an amount only.       *)
(***************************************************************************)
C26_DateAndDescription ==
    \A i \in 1..Len(returned) :
        /\ returned[i].date # <<>>
        /\ returned[i].description # <<>>

\* the records of the tables and the text of the pages, in page order
RECURSIVE TierResults(_, _)
TierResults(pages, currency) ==
    IF pages = <<>> THEN <<>>
    ELSE PageResults(Head(pages), currency) \o TierResults(Tail(pages), currency)

(***************************************************************************)
(* C28: in a call of extract_transactions that gets through the loop over  *)
(* the pages, the OCR fallback runs if and only if the tables and the text *)
(* of all the pages together gave no record; when it runs, the returned    *)
(* list is the list of the OCR records (empty when OCR raised), and when   *)
(* it does not run the returned list is the list of the records of the     *)
(* tables and the text, with no OCR record in it.  In every state, OCR has *)
(* run only after the last page and only over an empty list.               *)
(***************************************************************************)
C28_OcrOnlyWhenEmpty ==
    /\ ocr_ran => (page_idx = Len(pdf) /\ mfault \in {"none", "ocr"})
    /\ (mpc = "done" /\ mfault \in {"none", "ocr"}) =>
           /\ ocr_ran <=> TierResults(pdf, Currency(metadata)) = <<>>
           /\ (ocr_ran /\ mfault = "none")
                  => returned = OcrResults(pdf, Currency(metadata))
           /\ (ocr_ran /\ mfault = "ocr") => returned = <<>>
           /\ ~ocr_ran => returned = TierResults(pdf, Currency(metadata))

\* OCR ran over a document whose pages gave nothing, and found records
C28_Witness ==
    /\ mpc = "done"
    /\ mfault = "none"
    /\ ocr_ran
    /\ returned # <<>>
    /\ TierResults(pdf, Currency(metadata)) = <<>>

(***************************************************************************)
(* C27: after a run of extract_transactions_from_pdf that raised nothing   *)
(* out of a strategy, the quality label is 'high' iff more than 10         *)
(* deduplicated rows are returned, 'medium' iff 4 to 10, 'low' iff 3 or    *)
(* fewer, so that no row at all gives 'low' with an empty list; the label  *)
(* is 'error' iff the run raised, and it then comes with an empty list and *)
(* the extraction method 'failed'.                                         *)
(***************************************************************************)
C27_QualityLabel ==
    spc = "done" =>
        IF RanThrough
        THEN /\ extraction_result.quality = "high" <=> Len(Returned_rows) > 10
             /\ extraction_result.quality = "medium"
                    <=> (Len(Returned_rows) >= 4 /\ Len(Returned_rows) <= 10)
             /\ extraction_result.quality = "low" <=> Len(Returned_rows) <= 3
             /\ extraction_result.quality # "error"
             /\ extraction_result.extraction_method # "failed"
        ELSE /\ extraction_result.quality = "error"
             /\ extraction_result.extraction_method = "failed"
             /\ Returned_rows = <<>>

\* a run returned exactly ten rows and was labelled medium
C27_Witness ==
    /\ spc = "done"
    /\ RanThrough
    /\ Len(Returned_rows) = 10
    /\ extraction_result.quality = "medium"

\* a is b with some elements left out, the others in the order of b
RECURSIVE IsSubsequence(_, _)
IsSubsequence(a, b) ==
    IF a = <<>> THEN TRUE
    ELSE IF b = <<>> THEN FALSE
    ELSE IF Head(a) = Head(b) THEN IsSubsequence(Tail(a), Tail(b))
    ELSE IsSubsequence(a, Tail(b))

(***************************************************************************)
(* C30: the output of deduplicate_transactions is a subsequence of the     *)
(* input in input order; no two of its records share date, amount and the  *)
(* lower-cased first 10 characters of the description; every such key of   *)
(* the input has a record in the output; and the function applied to its   *)
(* own output returns that output.                                         *)
(***************************************************************************)
C30_DedupSubsequence ==
    dpc = "done" =>
        /\ IsSubsequence(unique_transactions, transactions)
        /\ \A i, j \in 1..Len(unique_transactions) :
               SameGroup(unique_transactions[i], unique_transactions[j]) => i = j
        /\ AllRepresented(transactions, unique_transactions)
        /\ deduplicate_transactions(unique_transactions) = unique_transactions

\* an input of three records, the third a duplicate of the first with a
\* higher confidence and another spelling, has lost that third record
C30_Witness ==
    /\ dpc = "done"
    /\ Len(transactions) = 3
    /\ Len(unique_transactions) = 2
    /\ transactions[1] # transactions[3]
    /\ SameGroup(transactions[1], transactions[3])
    /\ GetConfidence(transactions[3]) > GetConfidence(transactions[1])
    /\ unique_transactions = <<transactions[1], transactions[2]>>

(***************************************************************************)
(* main.py: the date of a record of the text strategy (lines 330-345) and  *)
(* of the pattern strategy (lines 391-403, 429-440)                        *)
(***************************************************************************)

\* the group 'date' of bank_pattern and credit_card_pattern,
\* \d{1,2}[/-]\d{1,2}[/-]\d{2,4}, tried at d[i]: the index of its last
\* character, 0 without a match; a blank follows the date in the line
PatternDateEnd(d, i) ==
    LET a == RunLength(d, i, Digits)
        b == RunLength(d, i + a + 1, Digits)
        c == RunLength(d, i + a + b + 2, Digits)
    IN  IF /\ a \in 1..2
           /\ b \in 1..2
           /\ c >= 2
           /\ d[i + a] \in {"/", "-"}
           /\ d[i + a + b + 1] \in {"/", "-"}
        THEN i + a + b + 1 + (IF c > 4 THEN 4 ELSE c)
        ELSE 0

\* match.group('date') of the leftmost match in a line that starts with d
PatternDate(d) ==
    LET starts == {i \in 1..Len(d) : PatternDateEnd(d, i) # 0}
        first == CHOOSE i \in starts : \A j \in starts : i <= j
    IN  IF starts = {} THEN NoneStr
        ELSE SubSeq(d, first, PatternDateEnd(d, first))

\* lines 331-345 and 392-403: a date with two slashes is split into month,
\* day and year, in that order, and written year-month-day; any other date
\* is kept as it is found
standardize_date(date) ==
    LET a == RunLength(date, 1, Digits)
        b == RunLength(date, a + 2, Digits)
        c == RunLength(date, a + b + 3, Digits)
        month == SubSeq(date, 1, a)
        day == SubSeq(date, a + 2, a + b + 1)
        year == SubSeq(date, a + b + 3, Len(date))
        zfill(s) == IF Len(s) < 2 THEN <<"0">> \o s ELSE s
        slashes == /\ a \in 1..2
                   /\ b \in 1..2
                   /\ Len(date) >= a + b + 2
                   /\ date[a + 1] = "/"
                   /\ date[a + b + 2] = "/"
        \* date.split('/') gives three parts, int(year) a number
        three == Len(Keep(date, {"/"})) = 2
        number == c = Len(year)
    IN  IF date = NoneStr THEN NoneStr
        ELSE IF slashes /\ c >= 4
        THEN IF three THEN year \o <<"-">> \o zfill(month) \o <<"-">> \o zfill(day)
             ELSE date
        ELSE IF slashes /\ c >= 2
        THEN IF three /\ number
             THEN (IF ToNumber(year) < 50 THEN <<"2", "0">> ELSE <<"1", "9">>)
                  \o year \o <<"-">> \o zfill(month) \o <<"-">> \o zfill(day)
             ELSE date
        ELSE date

(***************************************************************************)
(* Calls parse_date(date_arg), clean_amount_to_float on the two renderings *)
(* of an amount, and the date standardization of main.py on a date token   *)
(***************************************************************************)

\* years of the date tokens: the first and last year of datetime, a year
\* of three digits, century years, leap and common years
DateYears == {1, 999, 1000, 1900, 2000, 2023, 2024, 9999}

\* a number written with four digits, as the field YYYY is
Pad4(n) ==
    IF n < 10 THEN <<"0", "0", "0">> \o NumberText(n)
    ELSE IF n < 100 THEN <<"0", "0">> \o NumberText(n)
    ELSE IF n < 1000 THEN <<"0">> \o NumberText(n)
    ELSE NumberText(n)

\* the token DD/MM/YYYY (or with another separator) of a day
DateToken(day, month, year, sep) ==
    Pad2(day) \o <<sep>> \o Pad2(month) \o <<sep>> \o Pad4(year)

\* the whole part of an amount written in groups of three digits
RECURSIVE Grouped(_, _)
Grouped(whole, thou_sep) ==
    IF whole < 1000 THEN NumberText(whole)
    ELSE Grouped(whole \div 1000, thou_sep) \o <<thou_sep>>
         \o (IF whole % 1000 < 10 THEN <<"0", "0">>
             ELSE IF whole % 1000 < 100 THEN <<"0">> ELSE <<>>)
         \o NumberText(whole % 1000)

\* an amount with two decimals, written with a leading minus, in
\* parentheses, or without a sign
Rendering(whole, cents, thou_sep, dec_sep, sign) ==
    LET body == Grouped(whole, thou_sep) \o <<dec_sep>> \o Pad2(cents)
    IN  IF sign = "minus" THEN <<"-">> \o body
        ELSE IF sign = "parentheses" THEN <<"(">> \o body \o <<")">>
        ELSE body

HelperInit ==
    /\ \/ /\ hpc = "parse_date"
          /\ date_arg \in {DateToken(d, m, y, "/") :
                               d \in 1..31, m \in 1..12, y \in DateYears}
          /\ amount_arg = <<>>
       \/ /\ hpc = "standardize"
          /\ date_arg \in
                 {DateToken(d, m, y, sep) :
                      d \in {1, 5, 12, 13, 28}, m \in {1, 3, 12},
                      y \in {1999, 2024}, sep \in {"/", "-"}}
                 \cup {Pad4(y) \o <<"-">> \o Pad2(m) \o <<"-">> \o Pad2(d) :
                      d \in {1, 5, 12, 13, 28}, m \in {1, 3, 12}, y \in {1999, 2024}}
                 \cup {Pad2(d) \o <<"/">> \o Pad2(m) \o <<"/">> \o Pad2(y) :
                      d \in {5, 13}, m \in {3}, y \in {24, 49, 50, 99}}
          /\ amount_arg = <<>>
       \/ /\ hpc = "clean_amount"
          /\ date_arg = <<>>
          /\ amount_arg \in
                 {[european |-> Rendering(w, c, ".", ",", s),
                   us |-> Rendering(w, c, ",", ".", s)] :
                      w \in {0, 1, 12, 123, 999, 1000, 1234, 12005, 123456, 1234567},
                      c \in {0, 5, 50, 56, 99},
                      s \in {"none", "minus", "parentheses"}}
    /\ helper_value = <<>>
    /\ CatIdle
    /\ DedupIdle
    /\ ServiceIdle
    /\ TypeIdle
    /\ ModuleIdle
    /\ BucketIdle

ParseDate ==
    /\ hpc = "parse_date"
    /\ helper_value' = parse_date(date_arg)
    /\ hpc' = "parsed"
    /\ UNCHANGED <<date_arg, amount_arg>>
    /\ UNCHANGED <<catVars, dedupVars, serviceVars, typeVars, moduleVars, bucketVars>>

\* the text strategy finds the token whole (date_patterns, lines 232-239);
\* the pattern strategy finds the group 'date' of its patterns
StandardizeDate ==
    /\ hpc = "standardize"
    /\ helper_value' = [text |-> standardize_date(date_arg),
                        pattern |-> standardize_date(PatternDate(date_arg))]
    /\ hpc' = "standardized"
    /\ UNCHANGED <<date_arg, amount_arg>>
    /\ UNCHANGED <<catVars, dedupVars, serviceVars, typeVars, moduleVars, bucketVars>>

CleanAmount ==
    /\ hpc = "clean_amount"
    /\ helper_value' = [european |-> clean_amount_to_float(amount_arg.european),
                        us |-> clean_amount_to_float(amount_arg.us)]
    /\ hpc' = "cleaned"
    /\ UNCHANGED <<date_arg, amount_arg>>
    /\ UNCHANGED <<catVars, dedupVars, serviceVars, typeVars, moduleVars, bucketVars>>

HelperSpec == HelperInit /\ [][ParseDate \/ StandardizeDate \/ CleanAmount]_vars

\* the ISO form of the day of a token DD/MM/YYYY, DD-MM-YYYY or YYYY-MM-DD,
\* the first of these two read day first
DayFirstIso(token) ==
    IF token[3] \in {"/", "-"}
    THEN SubSeq(token, 7, 10) \o <<"-">> \o SubSeq(token, 4, 5) \o <<"-">>
         \o SubSeq(token, 1, 2)
    ELSE token

\* the token DD/MM/YYYY names a day of the calendar
IsCalendarDate(token) ==
    /\ ToNumber(SubSeq(token, 7, 10)) \in 1..9999
    /\ ToNumber(SubSeq(token, 4, 5)) \in 1..12
    /\ ToNumber(SubSeq(token, 1, 2))
           \in 1..DaysInMonth(ToNumber(SubSeq(token, 7, 10)),
                              ToNumber(SubSeq(token, 4, 5)))

(***************************************************************************)
(* C23: for every token DD/MM/YYYY that names a day of the calendar,       *)
(* parse_date returns the ISO text YYYY-MM-DD of that day, the first field *)
(* read as the day and the second as the month.                            *)
(***************************************************************************)
C23_DateRoundTrip ==
    (hpc = "parsed" /\ IsCalendarDate(date_arg))
        => helper_value = DayFirstIso(date_arg)

(***************************************************************************)
(* C24: for every date token DD/MM/YYYY, DD-MM-YYYY or YYYY-MM-DD, the     *)
(* date of the record of the text strategy and of the pattern strategy of  *)
(* main.py is the ISO text YYYY-MM-DD of the same day, the token read day  *)
(* first.                                                                  *)
(***************************************************************************)
C24_ServiceDates ==
    (hpc = "standardized" /\ Len(date_arg) = 10) =>
        /\ helper_value.text = DayFirstIso(date_arg)
        /\ helper_value.pattern = DayFirstIso(date_arg)

(***************************************************************************)
(* C25: for every amount with two decimals, clean_amount_to_float returns  *)
(* the same number for the European rendering (dot thousands, comma        *)
(* decimal) and the US rendering (comma thousands, dot decimal), the       *)
(* number the digits of the rendering spell with two decimals, and the     *)
(* result is negative exactly when the source has a leading minus or       *)
(* stands in parentheses.                                                  *)
(***************************************************************************)
C25_AmountFormats ==
    hpc = "cleaned" =>
        /\ helper_value.european # NoneFloat
        /\ helper_value.european = helper_value.us
        /\ helper_value.european.digits = ToNumber(Keep(amount_arg.european, Digits))
        /\ helper_value.european.scale = 2
        /\ helper_value.european.neg <=> amount_arg.european[1] \in {"-", "("}

\* 1.234.567,89 and 1,234,567.89 in parentheses have been read as the same
\* negative number
C25_Witness ==
    /\ hpc = "cleaned"
    /\ Len(amount_arg.european) = 14
    /\ amount_arg.european[1] = "("
    /\ amount_arg.european[3] = "."
    /\ amount_arg.us[3] = ","
    /\ helper_value.us = Float(TRUE, 123456756, 2)

(***************************************************************************)
(* supabase_utils.py: initialize_documents_bucket(bucket_name,             *)
(* max_attempts, base_delay)                                               *)
(*                                                                         *)
(* credentials tells whether SUPABASE_URL and the key are non-empty (an    *)
(* environment variable set to the empty text overrides the default).      *)
(* responses lists what each requests.post gave: a status, 400 with or     *)
(* without 'already exists' in the text, or an exception; delays lists the *)
(* arguments of time.sleep.                                                *)
(***************************************************************************)
MaxAttempts == 3

\* a delay doubled once more than line 63 doubles it
DelayFromAttempt(base, k) == base * 2 ^ k

\* line 63: base_delay * (2 ** (attempt - 1))
Delay(base, k) == base * 2 ^ (k - 1)

BucketInit ==
    /\ max_attempts \in 0..MaxAttempts
    /\ base_delay \in {1, 2}
    /\ credentials \in BOOLEAN
    /\ attempt = 0
    /\ responses = <<>>
    /\ delays = <<>>
    /\ initialized = None
    /\ bpc = "start"
    /\ CatIdle
    /\ DedupIdle
    /\ ServiceIdle
    /\ TypeIdle
    /\ ModuleIdle
    /\ HelperIdle

\* lines 25-42
CheckCredentials ==
    /\ bpc = "start"
    /\ IF credentials
       THEN /\ bpc' = "loop"
            /\ UNCHANGED initialized
       ELSE /\ initialized' = "False"
            /\ bpc' = "done"
    /\ UNCHANGED <<max_attempts, base_delay, credentials, attempt, responses, delays>>
    /\ UNCHANGED <<catVars, dedupVars, serviceVars, typeVars, moduleVars, helperVars>>

\* lines 43-65: one turn of the loop
Attempt ==
    /\ bpc = "loop"
    /\ attempt < max_attempts
    /\ \E r \in {"200", "400 already exists", "400", "500", "raised"} :
          /\ responses' = Append(responses, r)
          /\ IF r \in {"200", "400 already exists"}
             THEN /\ initialized' = "True"
                  /\ bpc' = "done"
                  /\ UNCHANGED <<attempt, delays>>
             ELSE /\ attempt' = attempt + 1
                  /\ delays' = IF attempt + 1 < max_attempts
                               THEN Append(delays, Delay(base_delay, attempt + 1))
                               ELSE delays
                  /\ UNCHANGED <<initialized, bpc>>
    /\ UNCHANGED <<max_attempts, base_delay, credentials>>
    /\ UNCHANGED <<catVars, dedupVars, serviceVars, typeVars, moduleVars, helperVars>>

\* lines 43, 67-68: the loop is left without a success
GiveUp ==
    /\ bpc = "loop"
    /\ attempt >= max_attempts
    /\ initialized' = "False"
    /\ bpc' = "done"
    /\ UNCHANGED <<max_attempts, base_delay, credentials, attempt, responses, delays>>
    /\ UNCHANGED <<catVars, dedupVars, serviceVars, typeVars, moduleVars, helperVars>>

\* the call is not suspended for ever: every step that can be taken is taken
BucketSpec ==
    /\ BucketInit
    /\ [][CheckCredentials \/ Attempt \/ GiveUp]_vars
    /\ WF_vars(CheckCredentials \/ Attempt \/ GiveUp)

Successful(r) == r \in {"200", "400 already exists"}

Failed == {i \in 1..Len(responses) : ~Successful(responses[i])}

\* what holds of a call of initialize_documents_bucket at every moment
BoundedRetry ==
    /\ Len(responses) <= max_attempts
    /\ \A i \in 1..Len(responses) : Successful(responses[i]) => i = Len(responses)
    /\ bpc = "done" =>
           /\ initialized \in {"True", "False"}
           /\ initialized = "True" <=> \E i \in 1..Len(responses) : Successful(responses[i])
           /\ initialized = "False" =>
                  \/ ~credentials
                  \/ max_attempts = 0
                  \/ Cardinality(Failed) = max_attempts
    /\ (bpc = "done" /\ max_attempts = 0) => initialized = "False"
    /\ Len(delays) = IF Cardinality(Failed) < max_attempts THEN Cardinality(Failed)
                     ELSE IF max_attempts = 0 THEN 0 ELSE max_attempts - 1
    /\ \A k \in 1..Len(delays) : delays[k] = base_delay * 2 ^ (k - 1)

(***************************************************************************)
(* C29: initialize_documents_bucket always terminates, after at most       *)
(* max_attempts POST requests; it posts nothing after the first successful *)
(* request (status 200, or 400 with 'already exists') and returns True     *)
(* exactly when a request was successful; it returns False when every      *)
(* attempt fails or raises and when max_attempts is 0; it sleeps           *)
(* base_delay * 2^(k-1) after the k-th failed attempt and does not sleep   *)
(* after the last one.                                                     *)
(***************************************************************************)
C29_BoundedRetry == []BoundedRetry /\ <>(bpc = "done")

\* two failed attempts, two sleeps, then a bucket that already exists
C29_Witness ==
    /\ bpc = "done"
    /\ initialized = "True"
    /\ max_attempts = 3
    /\ responses = <<"500", "raised", "400 already exists">>
    /\ delays = <<base_delay, base_delay * 2>>
====
